---- MODULE Spec2Model ----
(***************************************************************************)
(* The file-backed library store of cucubau-sound: the Path Resolver       *)
(* (buildFolderPath), the File-System Adapter (FileSystemStorage) over an  *)
(* abstract directory tree, and the Storage Service (StorageService) with  *)
(* its in-memory Library Index and the persisted index document.           *)
(***************************************************************************)
EXTENDS Integers, Sequences, FiniteSets, TLC

\* ---------------------------------------------------------------------------
\* Bounds of the model
\* ---------------------------------------------------------------------------
\* folders ever created in one session (each gets a fresh id)
MaxFolders == 3
\* distinct recording ids a caller may use
MaxRecIds == 3
\* entries the recordings list may hold
MaxRecordings == 3
\* service calls in one session
MaxOps == 5
\* calls in a session of folder operations only
MaxFolderOps == 5
\* calls in a session that builds a folder of recordings and deletes it
MaxSubtreeOps == 6
\* calls made in a session of saving, re-filing and reading recordings
MaxPlaybackOps == 5
\* calls made in a session that starts from a root of an earlier session
MaxSessionOps == 4
\* calls issued, page closes included, in a session of calls that are not
\* awaited
MaxCallOps == 5
\* calls that may be pending at the same time
MaxPending == 2
\* folders and recordings the earlier version left in the browser's stores
MaxLegacyFolders == 2
MaxLegacyRecordings == 2
\* startups, page closes and migrations in a session that imports them
MaxMigrationOps == 5
\* path resolutions in one behaviour of SpecPaths
MaxPathOps == 2

\* ---------------------------------------------------------------------------
\* Value universes
\* ---------------------------------------------------------------------------
NULL == "null"
UNCATEGORIZED == "uncategorized"

\* crypto.randomUUID(): ids in the order they are handed out, never reused
FolderIdSeq == <<"f1", "f2", "f3", "f4", "f5", "f6", "f7", "f8", "f9">>
RecIdSeq == <<"r1", "r2", "r3", "r4", "r5">>
FolderIds == {FolderIdSeq[i] : i \in 1..MaxFolders}
RecIds == {RecIdSeq[i] : i \in 1..MaxRecIds}
FolderNames == {"A", "B"}
Filenames == {"x.wav", "y.wav"}
Titles == {"T1", "T2"}
BlobSeq == <<"b1", "b2", "b3", "b4", "b5">>
\* ids and file names the earlier version gave its folders and recordings
LegacyFolderIdSeq == <<"a", "b", "c", "d">>
LegacyFilenameSeq == <<"x.wav", "y.webm", "z.wav", "u.wav">>
FilenameSeq == <<"x.wav", "y.wav", "z.wav", "u.wav", "v.wav">>

\* What the adapter does during one call: nothing fails, directory creation
\* fails, file writes fail, removals fail, only the index write fails, or the
\* index read fails.
FailModes == {"none", "mkdir", "write", "delete", "lib", "read"}

\* ---------------------------------------------------------------------------
\* Sequence helpers
\* ---------------------------------------------------------------------------
Range(s) == {s[i] : i \in DOMAIN s}

\* Array.prototype.filter keeps the order of the elements
Filter(s, Test(_)) == SelectSeq(s, Test)

\* Array.prototype.findIndex: first index whose element passes, 0 when none
FindIndex(s, Test(_)) ==
  LET hits == {i \in DOMAIN s : Test(s[i])}
  IN IF hits = {} THEN 0 ELSE CHOOSE i \in hits : \A j \in hits : i <= j

IsPrefix(p, q) == Len(p) <= Len(q) /\ SubSeq(q, 1, Len(p)) = p
Front(p) == SubSeq(p, 1, Len(p) - 1)
Last(p) == p[Len(p)]

\* ---------------------------------------------------------------------------
\* Path Resolver
\* ---------------------------------------------------------------------------
\* a walk that adds every name at the end of the path (C26 fails on it)
RECURSIVE walkParentsPushing(_, _, _, _)
walkParentsPushing(currentId, folders, path, fuel) ==
  IF currentId = NULL \/ fuel = 0 THEN path
  ELSE LET i == FindIndex(folders, LAMBDA f : f.id = currentId)
       IN IF i = 0 THEN path
          ELSE walkParentsPushing(folders[i].parentId, folders,
                                  path \o <<folders[i].name>>, fuel - 1)

RECURSIVE walkParents(_, _, _, _)
\* the while loop of buildFolderPath; fuel only ends the walk on a parent
\* cycle, where the code would not terminate
walkParents(currentId, folders, path, fuel) ==
  IF currentId = NULL \/ fuel = 0 THEN path
  ELSE LET i == FindIndex(folders, LAMBDA f : f.id = currentId)
       IN IF i = 0 THEN path
          ELSE walkParents(folders[i].parentId, folders,
                           <<folders[i].name>> \o path, fuel - 1)

buildFolderPath(folderId, folders) ==
  IF folderId = NULL \/ folderId = UNCATEGORIZED THEN <<>>
  ELSE walkParents(folderId, folders, <<>>, Len(folders) + 1)

getRecordingDiskPath(recording, folders) ==
  buildFolderPath(recording.folderId, folders)

\* ---------------------------------------------------------------------------
\* File-System Adapter (FileSystemStorage) over an abstract disk
\*   D.dirs  : the directories below the root handle, as paths (<<>> = root)
\*   D.files : [<<directory path, filename>> -> bytes]
\* Every operation returns a StorageResult together with the disk it leaves.
\* ---------------------------------------------------------------------------
Prefixes(p) == {SubSeq(p, 1, k) : k \in 0..Len(p)}

ok(D) == [success |-> TRUE, error |-> "", dirs |-> D.dirs, files |-> D.files]
err(e, D) == [success |-> FALSE, error |-> e, dirs |-> D.dirs, files |-> D.files]
DiskOf(r) == [dirs |-> r.dirs, files |-> r.files]

\* writable.write + close: the file at dirPath/filename now holds blob
PutFile(D, dirPath, filename, blob) ==
  [D EXCEPT !.files = [k \in DOMAIN D.files \cup {<<dirPath, filename>>} |->
                         IF k = <<dirPath, filename>> THEN blob ELSE D.files[k]]]

\* removeEntry(filename)
DropFile(D, dirPath, filename) ==
  [D EXCEPT !.files = [k \in DOMAIN D.files \ {<<dirPath, filename>>} |-> D.files[k]]]

\* removeEntry(dirName, {recursive: true})
RemoveTree(D, path) ==
  [dirs |-> {p \in D.dirs : ~IsPrefix(path, p)},
   files |-> [k \in {q \in DOMAIN D.files : ~IsPrefix(path, q[1])} |-> D.files[k]]]

getDirectory(D, path, create, fm) ==
  IF path \in D.dirs THEN ok(D)
  ELSE IF ~create THEN err("FOLDER_NOT_FOUND", D)
  ELSE IF fm = "mkdir" THEN err("READ_FAILED", D)
  ELSE ok([D EXCEPT !.dirs = @ \cup Prefixes(path)])

getOrCreateDirectory(D, path, fm) == getDirectory(D, path, TRUE, fm)

deleteDirectory(D, path, recursive, fm) ==
  IF path = <<>> THEN err("INVALID_OPERATION", D)
  ELSE IF Front(path) \notin D.dirs THEN err("FOLDER_NOT_FOUND", D)
  ELSE IF path \notin D.dirs \/ fm = "delete" THEN err("DELETE_FAILED", D)
  ELSE IF ~recursive /\ (\E p \in D.dirs : IsPrefix(path, p) /\ p # path)
       THEN err("DELETE_FAILED", D)
  ELSE IF ~recursive /\ (\E k \in DOMAIN D.files : k[1] = path)
       THEN err("DELETE_FAILED", D)
  ELSE ok(RemoveTree(D, path))

\* source path p relocated from below src to below dst
Reloc(p, src, dst) == dst \o SubSeq(p, Len(src) + 1, Len(p))

\* The recursive copy. It throws (success = FALSE) when a file write or a
\* sub-directory creation fails, and when dest lies strictly inside source:
\* each level then creates the next sub-directory inside the directory it is
\* iterating, and the recursion only ends on the adapter's error.
copyDirectoryContents(D, source, dest, fm) ==
  LET srcDirs == {p \in D.dirs : IsPrefix(source, p) /\ p # source}
      srcFiles == {k \in DOMAIN D.files : IsPrefix(source, k[1])}
      newDirs == {Reloc(p, source, dest) : p \in srcDirs}
      newKeys == {<<Reloc(k[1], source, dest), k[2]>> : k \in srcFiles}
  IN IF IsPrefix(source, dest) /\ source # dest THEN err("THROWN", D)
     ELSE IF fm = "write" /\ srcFiles # {} THEN err("THROWN", D)
     ELSE IF fm = "mkdir" /\ ~(newDirs \subseteq D.dirs) THEN err("THROWN", D)
     ELSE ok([dirs |-> D.dirs \cup newDirs,
              files |-> [k \in DOMAIN D.files \cup newKeys |->
                           IF k \in newKeys
                           THEN D.files[CHOOSE s \in srcFiles :
                                  <<Reloc(s[1], source, dest), s[2]>> = k]
                           ELSE D.files[k]]])

renameDirectory(D, path, newName, fm) ==
  IF path = <<>> THEN err("INVALID_OPERATION", D)
  ELSE LET parentPath == Front(path)
           newPath == parentPath \o <<newName>>
           made == [D EXCEPT !.dirs = @ \cup {newPath}]
           copied == copyDirectoryContents(made, path, newPath, fm)
       IN IF parentPath \notin D.dirs THEN err("FOLDER_NOT_FOUND", D)
          ELSE IF path \notin D.dirs THEN err("WRITE_FAILED", D)
          ELSE IF newPath \notin D.dirs /\ fm = "mkdir" THEN err("WRITE_FAILED", D)
          ELSE IF ~copied.success THEN err("WRITE_FAILED", made)
          ELSE IF fm = "delete" THEN err("WRITE_FAILED", DiskOf(copied))
          ELSE ok(RemoveTree(DiskOf(copied), path))

moveDirectory(D, fromPath, toParentPath, fm) ==
  IF fromPath = <<>> THEN err("INVALID_OPERATION", D)
  ELSE LET dirName == Last(fromPath)
           destParent == getOrCreateDirectory(D, toParentPath, fm)
           newPath == toParentPath \o <<dirName>>
           made == [DiskOf(destParent) EXCEPT !.dirs = @ \cup {newPath}]
           copied == copyDirectoryContents(made, fromPath, newPath, fm)
       IN IF fromPath \notin D.dirs THEN err("FOLDER_NOT_FOUND", D)
          ELSE IF ~destParent.success THEN destParent
          ELSE IF newPath \notin destParent.dirs /\ fm = "mkdir"
               THEN err("WRITE_FAILED", DiskOf(destParent))
          ELSE IF ~copied.success THEN err("WRITE_FAILED", made)
          ELSE IF fm = "delete" THEN err("WRITE_FAILED", DiskOf(copied))
          ELSE ok(RemoveTree(DiskOf(copied), fromPath))

fileExists(D, dirPath, filename) ==
  dirPath \in D.dirs /\ <<dirPath, filename>> \in DOMAIN D.files

writeFile(D, dirPath, filename, blob, fm) ==
  LET dirResult == getOrCreateDirectory(D, dirPath, fm)
  IN IF ~dirResult.success THEN dirResult
     ELSE IF fm = "write" THEN err("WRITE_FAILED", DiskOf(dirResult))
     ELSE ok(PutFile(DiskOf(dirResult), dirPath, filename, blob))

\* readFile returns the bytes in .data
readFile(D, dirPath, filename) ==
  IF dirPath \notin D.dirs
  THEN [success |-> FALSE, error |-> "FOLDER_NOT_FOUND", data |-> ""]
  ELSE IF <<dirPath, filename>> \notin DOMAIN D.files
  THEN [success |-> FALSE, error |-> "FILE_NOT_FOUND", data |-> ""]
  ELSE [success |-> TRUE, error |-> "", data |-> D.files[<<dirPath, filename>>]]

deleteFile(D, dirPath, filename, fm) ==
  IF dirPath \notin D.dirs THEN err("FOLDER_NOT_FOUND", D)
  ELSE IF <<dirPath, filename>> \notin DOMAIN D.files THEN ok(D)
  ELSE IF fm = "delete" THEN err("DELETE_FAILED", D)
  ELSE ok(DropFile(D, dirPath, filename))

moveFile(D, fromPath, filename, toPath, fm) ==
  LET readResult == readFile(D, fromPath, filename)
      writeResult == writeFile(D, toPath, filename, readResult.data, fm)
      deleteResult == deleteFile(DiskOf(writeResult), fromPath, filename, fm)
  IN IF ~readResult.success THEN err(readResult.error, D)
     ELSE IF ~writeResult.success THEN writeResult
     ELSE deleteResult

\* ---------------------------------------------------------------------------
\* Storage Service (StorageService)
\* ---------------------------------------------------------------------------
VARIABLES
  loaded,       \* this.library !== null
  initialized,  \* this.initialized
  folders,      \* this.library.folders  : sequence of [id, name, parentId]
  recordings,   \* this.library.recordings : sequence of
                \*   [id, filename, folderId, parentId, tabTitle]
  dirs,         \* directories on disk below the selected root
  files,        \* recording files on disk
  persisted,    \* cucubau-library.json in the root directory
  dirHandle,    \* a directory handle is stored in IndexedDB
  rootHandle,   \* this.fs.rootHandle !== null
  permission,   \* queryPermission of the root: "granted", "prompt" or "denied"
  uuids,        \* folder ids handed out by crypto.randomUUID so far
  nops,         \* service calls made in this session
  inflight,     \* calls that have not returned yet, each at its pending await
  legacy,       \* chrome.storage.local and the IndexedDB audio store of the
                \*   earlier version: [folders, recordings, blobs,
                \*   migrationCompleted]
  last          \* the call that returned last:
                \*   [op, id, arg, arg2, result, fm, writes]

vars == <<loaded, initialized, folders, recordings, dirs, files, persisted,
          dirHandle, rootHandle, permission, uuids, nops, inflight, legacy, last>>

\* The service's data while a handler runs: index, disk, index document, and
\* the calls of fs.writeLibrary the handler has made so far.
Here == [folders |-> folders, recordings |-> recordings, dirs |-> dirs,
         files |-> files, persisted |-> persisted, writes |-> 0]

NoDocument == [state |-> "absent", recordings |-> <<>>, folders |-> <<>>]
\* a cucubau-library.json that JSON.parse rejects
Malformed == [state |-> "malformed", recordings |-> <<>>, folders |-> <<>>]
Document(T) == [state |-> "valid", recordings |-> T.recordings, folders |-> T.folders]

\* a handler's return: the StorageResult's type ("ok" or the error type) and
\* the data it leaves
Return(result, T) == [result |-> result, folders |-> T.folders,
                      recordings |-> T.recordings, dirs |-> T.dirs,
                      files |-> T.files, persisted |-> T.persisted,
                      writes |-> T.writes]
DataOf(R) == [folders |-> R.folders, recordings |-> R.recordings, dirs |-> R.dirs,
              files |-> R.files, persisted |-> R.persisted, writes |-> R.writes]
ResultOf(r) == IF r.success THEN "ok" ELSE r.error
WithDisk(T, D) == [T EXCEPT !.dirs = D.dirs, !.files = D.files]

\* FileSystemStorage.writeLibrary: one writeFile of the whole document
writeLibrary(T, fm) ==
  IF fm = "lib" THEN Return("WRITE_FAILED", [T EXCEPT !.writes = @ + 1])
  ELSE Return("ok", [T EXCEPT !.persisted = Document(T), !.writes = @ + 1])

\* a readLibrary that takes a document it cannot parse for a missing one (C17
\* fails on it)
readLibraryResetting(P, fm) ==
  IF fm = "read"
  THEN [success |-> FALSE, error |-> "READ_FAILED", data |-> NoDocument]
  ELSE [success |-> TRUE, error |-> "",
        data |-> IF P.state = "malformed" THEN NoDocument ELSE P]

\* FileSystemStorage.readLibrary: ok(null) when the document is absent (.data
\* is NoDocument), READ_FAILED when it cannot be read or parsed
readLibrary(P, fm) ==
  IF fm = "read" \/ P.state = "malformed"
  THEN [success |-> FALSE, error |-> "READ_FAILED", data |-> NoDocument]
  ELSE [success |-> TRUE, error |-> "", data |-> P]

saveLibrary(T, fm) == writeLibrary(T, fm)

\* ----- fallback search ------------------------------------------------------
\* The search of moveRecording and deleteRecordingFile: the expected path, then
\* the root, then every folder's path in index order; the first hit wins.
findActualPath(D, recording, fls) ==
  LET diskPath == getRecordingDiskPath(recording, fls)
      hit == FindIndex(fls, LAMBDA f :
               fileExists(D, buildFolderPath(f.id, fls), recording.filename))
  IN IF fileExists(D, diskPath, recording.filename)
     THEN [fileExists |-> TRUE, actualPath |-> diskPath]
     ELSE IF fileExists(D, <<>>, recording.filename)
     THEN [fileExists |-> TRUE, actualPath |-> <<>>]
     ELSE IF hit # 0
     THEN [fileExists |-> TRUE, actualPath |-> buildFolderPath(fls[hit].id, fls)]
     ELSE [fileExists |-> FALSE, actualPath |-> diskPath]

\* a getRecordingBlob that does not try the root directory (C14 fails on it)
getRecordingBlobSkippingRoot(T, id) ==
  LET i == FindIndex(T.recordings, LAMBDA r : r.id = id)
      recording == T.recordings[i]
      D == [dirs |-> T.dirs, files |-> T.files]
      diskPath == getRecordingDiskPath(recording, T.folders)
      hit == FindIndex(T.folders, LAMBDA f :
               readFile(D, buildFolderPath(f.id, T.folders), recording.filename).success)
  IN IF i = 0 THEN [success |-> FALSE, error |-> "FILE_NOT_FOUND", data |-> ""]
     ELSE IF readFile(D, diskPath, recording.filename).success
     THEN readFile(D, diskPath, recording.filename)
     ELSE IF hit # 0
     THEN readFile(D, buildFolderPath(T.folders[hit].id, T.folders), recording.filename)
     ELSE [success |-> FALSE, error |-> "FILE_NOT_FOUND", data |-> ""]

\* getRecordingBlob: the bytes ("" in .data when FILE_NOT_FOUND)
getRecordingBlobIn(T, id) ==
  LET i == FindIndex(T.recordings, LAMBDA r : r.id = id)
      recording == T.recordings[i]
      D == [dirs |-> T.dirs, files |-> T.files]
      diskPath == getRecordingDiskPath(recording, T.folders)
      hit == FindIndex(T.folders, LAMBDA f :
               readFile(D, buildFolderPath(f.id, T.folders), recording.filename).success)
  IN IF i = 0 THEN [success |-> FALSE, error |-> "FILE_NOT_FOUND", data |-> ""]
     ELSE IF readFile(D, diskPath, recording.filename).success
     THEN readFile(D, diskPath, recording.filename)
     ELSE IF readFile(D, <<>>, recording.filename).success
     THEN readFile(D, <<>>, recording.filename)
     ELSE IF hit # 0
     THEN readFile(D, buildFolderPath(T.folders[hit].id, T.folders), recording.filename)
     ELSE [success |-> FALSE, error |-> "FILE_NOT_FOUND", data |-> ""]

\* a deleteRecordingFile that looks at the expected path only (C13 fails on it)
deleteRecordingFileAtDiskPath(T, recording, fm) ==
  LET D == [dirs |-> T.dirs, files |-> T.files]
      diskPath == getRecordingDiskPath(recording, T.folders)
  IN IF fileExists(D, diskPath, recording.filename)
     THEN WithDisk(T, DiskOf(deleteFile(D, diskPath, recording.filename, fm)))
     ELSE T

deleteRecordingFile(T, recording, fm) ==
  LET D == [dirs |-> T.dirs, files |-> T.files]
      found == findActualPath(D, recording, T.folders)
  IN IF found.fileExists
     THEN WithDisk(T, DiskOf(deleteFile(D, found.actualPath, recording.filename, fm)))
     ELSE T

RECURSIVE deleteCropFiles(_, _, _)
\* for (const crop of crops) await this.deleteRecordingFile(crop)
deleteCropFiles(T, crops, fm) ==
  IF crops = <<>> THEN T
  ELSE deleteCropFiles(deleteRecordingFile(T, Head(crops), fm), Tail(crops), fm)

\* deleteRecording after the recording's own file is gone (T1): the crops'
\* files, the index entries, the index write
removeRecordingEntries(T1, id, crops, deleteChildren, fm) ==
  IF deleteChildren
  THEN saveLibrary([deleteCropFiles(T1, crops, fm) EXCEPT
         !.recordings = Filter(T1.recordings, LAMBDA r :
                                 r.id # id /\ \A c \in Range(crops) : r.id # c.id)], fm)
  ELSE saveLibrary([T1 EXCEPT !.recordings = Filter(@, LAMBDA r : r.id # id)], fm)

deleteRecordingIn(T, id, deleteChildren, fm) ==
  LET i == FindIndex(T.recordings, LAMBDA r : r.id = id)
  IN IF i = 0 THEN Return("FILE_NOT_FOUND", T)
     ELSE removeRecordingEntries(deleteRecordingFile(T, T.recordings[i], fm), id,
                                 Filter(T.recordings, LAMBDA r : r.parentId = id),
                                 deleteChildren, fm)

\* ----- folder operations ----------------------------------------------------
createFolderIn(T, newId, name, parentId, fm) ==
  LET parentPath == buildFolderPath(parentId, T.folders)
      folderPath == parentPath \o <<name>>
      dirResult == getOrCreateDirectory([dirs |-> T.dirs, files |-> T.files],
                                        folderPath, fm)
      newFolder == [id |-> newId, name |-> name, parentId |-> parentId]
      T1 == [WithDisk(T, DiskOf(dirResult)) EXCEPT !.folders = Append(@, newFolder)]
  IN IF ~dirResult.success THEN Return(dirResult.error, T)
     ELSE saveLibrary(T1, fm)

\* a renameFolder that stores the new name although the directory rename
\* failed (C22 fails on it)
renameFolderRenamingAnyway(T, id, newName, fm) ==
  LET i == FindIndex(T.folders, LAMBDA f : f.id = id)
      renameResult == renameDirectory([dirs |-> T.dirs, files |-> T.files],
                                      buildFolderPath(id, T.folders), newName, fm)
      T1 == WithDisk(T, DiskOf(renameResult))
  IN IF i = 0 THEN Return("FOLDER_NOT_FOUND", T)
     ELSE IF ~renameResult.success
     THEN Return(renameResult.error,
                 DataOf(saveLibrary([T1 EXCEPT !.folders[i].name = newName], fm)))
     ELSE saveLibrary([T1 EXCEPT !.folders[i].name = newName], fm)

renameFolderIn(T, id, newName, fm) ==
  LET i == FindIndex(T.folders, LAMBDA f : f.id = id)
      folderPath == buildFolderPath(id, T.folders)
      renameResult == renameDirectory([dirs |-> T.dirs, files |-> T.files],
                                      folderPath, newName, fm)
      T1 == WithDisk(T, DiskOf(renameResult))
  IN IF i = 0 THEN Return("FOLDER_NOT_FOUND", T)
     ELSE IF ~renameResult.success THEN Return(renameResult.error, T1)
     ELSE saveLibrary([T1 EXCEPT !.folders[i].name = newName], fm)

RECURSIVE isSelfOrDescendant(_, _, _, _)
\* the while loop of moveFolder's cycle check, walking up from newParentId
isSelfOrDescendant(current, id, fls, fuel) ==
  IF current = NULL \/ fuel = 0 THEN FALSE
  ELSE IF current = id THEN TRUE
  ELSE LET p == FindIndex(fls, LAMBDA f : f.id = current)
       IN isSelfOrDescendant(IF p = 0 THEN NULL ELSE fls[p].parentId, id, fls, fuel - 1)

\* a cycle check that stops after one step of the upward walk (C8 fails on it)
wouldCreateCycleOneStep(id, newParentId, fls) ==
  LET p == FindIndex(fls, LAMBDA f : f.id = newParentId)
  IN newParentId # NULL /\ (newParentId = id \/ (p # 0 /\ fls[p].parentId = id))

wouldCreateCycle(id, newParentId, fls) ==
  isSelfOrDescendant(newParentId, id, fls, Len(fls) + 1)

\* a moveFolder without the cycle check that also goes on past a failed
\* directory move, as deleteFolder does with its children (C7 fails on it)
moveFolderUnchecked(T, id, newParentId, fm) ==
  LET i == FindIndex(T.folders, LAMBDA f : f.id = id)
      moveResult == moveDirectory([dirs |-> T.dirs, files |-> T.files],
                                  buildFolderPath(id, T.folders),
                                  buildFolderPath(newParentId, T.folders), fm)
      T1 == WithDisk(T, DiskOf(moveResult))
  IN IF i = 0 THEN Return("FOLDER_NOT_FOUND", T)
     ELSE saveLibrary([T1 EXCEPT !.folders[i].parentId = newParentId], fm)

moveFolderIn(T, id, newParentId, fm) ==
  LET i == FindIndex(T.folders, LAMBDA f : f.id = id)
      oldPath == buildFolderPath(id, T.folders)
      newParentPath == buildFolderPath(newParentId, T.folders)
      moveResult == moveDirectory([dirs |-> T.dirs, files |-> T.files],
                                  oldPath, newParentPath, fm)
      T1 == WithDisk(T, DiskOf(moveResult))
  IN IF i = 0 THEN Return("FOLDER_NOT_FOUND", T)
     ELSE IF wouldCreateCycle(id, newParentId, T.folders)
     THEN Return("INVALID_OPERATION", T)
     ELSE IF ~moveResult.success THEN Return(moveResult.error, T1)
     ELSE saveLibrary([T1 EXCEPT !.folders[i].parentId = newParentId], fm)

RECURSIVE moveRecordingsToParent(_, _, _, _, _, _)
\* deleteFolder, deleteChildren = false: the loop over recordingsInFolder (the
\* entries at the indices idx); a failed moveFile is logged and skipped
moveRecordingsToParent(T, idx, folderPath, parentPath, parentId, fm) ==
  IF idx = <<>> THEN T
  ELSE LET rec == T.recordings[Head(idx)]
           moveResult == moveFile([dirs |-> T.dirs, files |-> T.files],
                                  folderPath, rec.filename, parentPath, fm)
           T1 == [WithDisk(T, DiskOf(moveResult)) EXCEPT
                    !.recordings[Head(idx)].folderId =
                       IF parentId = NULL THEN UNCATEGORIZED ELSE parentId]
       IN moveRecordingsToParent(T1, Tail(idx), folderPath, parentPath, parentId, fm)

RECURSIVE moveChildrenToParent(_, _, _, _, _)
\* deleteFolder, deleteChildren = false: the loop over childFolders; a failed
\* moveDirectory is logged and skipped
moveChildrenToParent(T, idx, parentPath, parentId, fm) ==
  IF idx = <<>> THEN T
  ELSE LET child == T.folders[Head(idx)]
           childPath == buildFolderPath(child.id, T.folders)
           moveResult == moveDirectory([dirs |-> T.dirs, files |-> T.files],
                                       childPath, parentPath, fm)
           T1 == [WithDisk(T, DiskOf(moveResult)) EXCEPT
                    !.folders[Head(idx)].parentId = parentId]
       IN moveChildrenToParent(T1, Tail(idx), parentPath, parentId, fm)

\* indices of s whose element passes, in order
IndicesOf(s, Test(_)) ==
  LET all == [i \in 1..Len(s) |-> i]
  IN SelectSeq(all, LAMBDA i : Test(s[i]))

RECURSIVE deleteRecordingsOf(_, _, _)
\* deleteFolder, deleteChildren = true: for (const rec of recordingsInFolder)
\* await this.deleteRecording(rec.id, true), the result ignored
deleteRecordingsOf(T, recs, fm) ==
  IF recs = <<>> THEN T
  ELSE deleteRecordingsOf(DataOf(deleteRecordingIn(T, Head(recs).id, TRUE, fm)),
                          Tail(recs), fm)

RECURSIVE deleteFolderIn(_, _, _, _, _)
RECURSIVE deleteChildFolders(_, _, _, _)
\* deleteFolder, deleteChildren = true: for (const child of childFolders)
\* await this.deleteFolder(child.id, true), the result ignored
deleteChildFolders(T, children, fm, fuel) ==
  IF children = <<>> \/ fuel = 0 THEN T
  ELSE deleteChildFolders(DataOf(deleteFolderIn(T, Head(children).id, TRUE, fm, fuel - 1)),
                          Tail(children), fm, fuel)

\* the end of deleteFolder, once the folder is emptied (Ta): remove its
\* directory (a failure is logged), drop its index entry, write the index
removeFolderEntry(Ta, folderPath, id, fm) ==
  saveLibrary([WithDisk(Ta, DiskOf(deleteDirectory([dirs |-> Ta.dirs, files |-> Ta.files],
                                                   folderPath, TRUE, fm)))
                 EXCEPT !.folders = Filter(@, LAMBDA f : f.id # id)], fm)

\* the two branches of deleteFolder for the folder at index i
emptyFolder(T, i, id, folderPath, deleteChildren, fm, fuel) ==
  IF deleteChildren
  THEN deleteRecordingsOf(
         deleteChildFolders(T, Filter(T.folders, LAMBDA f : f.parentId = id), fm, fuel),
         Filter(T.recordings, LAMBDA r : r.folderId = id), fm)
  ELSE moveChildrenToParent(
         moveRecordingsToParent(T, IndicesOf(T.recordings, LAMBDA r : r.folderId = id),
                                folderPath, Front(folderPath), T.folders[i].parentId, fm),
         IndicesOf(T.folders, LAMBDA f : f.parentId = id),
         Front(folderPath), T.folders[i].parentId, fm)

deleteFolderAt(T, i, id, folderPath, deleteChildren, fm, fuel) ==
  IF i = 0 THEN Return("FOLDER_NOT_FOUND", T)
  ELSE removeFolderEntry(emptyFolder(T, i, id, folderPath, deleteChildren, fm, fuel),
                         folderPath, id, fm)

deleteFolderIn(T, id, deleteChildren, fm, fuel) ==
  deleteFolderAt(T, FindIndex(T.folders, LAMBDA f : f.id = id), id,
                 buildFolderPath(id, T.folders), deleteChildren, fm, fuel)

\* ----- recording operations -------------------------------------------------
saveRecordingIn(T, recording, wavBlob, fm) ==
  LET diskPath == getRecordingDiskPath(recording, T.folders)
      writeResult == writeFile([dirs |-> T.dirs, files |-> T.files],
                               diskPath, recording.filename, wavBlob, fm)
      T1 == [WithDisk(T, DiskOf(writeResult)) EXCEPT !.recordings = Append(@, recording)]
  IN IF ~writeResult.success THEN Return(writeResult.error, WithDisk(T, DiskOf(writeResult)))
     ELSE saveLibrary(T1, fm)

\* a move that leaves the crop's parentId in place (C27 fails on it)
moveRecordingKeepingParent(T, id, newFolderId, fm) ==
  LET i == FindIndex(T.recordings, LAMBDA r : r.id = id)
      recording == T.recordings[i]
      existingInFolder == FindIndex(T.recordings, LAMBDA r :
          r.id # id /\ r.folderId = newFolderId /\ r.tabTitle = recording.tabTitle)
      D == [dirs |-> T.dirs, files |-> T.files]
      newPath == buildFolderPath(newFolderId, T.folders)
      found == findActualPath(D, recording, T.folders)
      moveResult == moveFile(D, found.actualPath, recording.filename, newPath, fm)
      moved == [T EXCEPT !.recordings[i].folderId = newFolderId]
  IN IF i = 0 THEN Return("FILE_NOT_FOUND", T)
     ELSE IF existingInFolder # 0 THEN Return("NAME_CONFLICT", T)
     ELSE IF ~found.fileExists THEN saveLibrary(moved, fm)
     ELSE IF ~moveResult.success
     THEN Return(moveResult.error, WithDisk(T, DiskOf(moveResult)))
     ELSE saveLibrary(WithDisk(moved, DiskOf(moveResult)), fm)

moveRecordingIn(T, id, newFolderId, fm) ==
  LET i == FindIndex(T.recordings, LAMBDA r : r.id = id)
      recording == T.recordings[i]
      existingInFolder == FindIndex(T.recordings, LAMBDA r :
          r.id # id /\ r.folderId = newFolderId /\ r.tabTitle = recording.tabTitle)
      D == [dirs |-> T.dirs, files |-> T.files]
      newPath == buildFolderPath(newFolderId, T.folders)
      found == findActualPath(D, recording, T.folders)
      moveResult == moveFile(D, found.actualPath, recording.filename, newPath, fm)
      moved == [T EXCEPT !.recordings[i].folderId = newFolderId,
                         !.recordings[i].parentId = NULL]
  IN IF i = 0 THEN Return("FILE_NOT_FOUND", T)
     ELSE IF existingInFolder # 0 THEN Return("NAME_CONFLICT", T)
     ELSE IF ~found.fileExists THEN saveLibrary(moved, fm)
     ELSE IF ~moveResult.success
     THEN Return(moveResult.error, WithDisk(T, DiskOf(moveResult)))
     ELSE saveLibrary(WithDisk(moved, DiskOf(moveResult)), fm)

moveRecordingWithRenameIn(T, id, newFolderId, newTitle, fm) ==
  LET i == FindIndex(T.recordings, LAMBDA r : r.id = id)
      recording == T.recordings[i]
      existingInFolder == FindIndex(T.recordings, LAMBDA r :
          r.id # id /\ r.folderId = newFolderId /\ r.tabTitle = newTitle)
      oldPath == getRecordingDiskPath(recording, T.folders)
      newPath == buildFolderPath(newFolderId, T.folders)
      moveResult == moveFile([dirs |-> T.dirs, files |-> T.files],
                             oldPath, recording.filename, newPath, fm)
      moved == [WithDisk(T, DiskOf(moveResult)) EXCEPT
                  !.recordings[i].folderId = newFolderId,
                  !.recordings[i].tabTitle = newTitle,
                  !.recordings[i].parentId = NULL]
  IN IF i = 0 THEN Return("FILE_NOT_FOUND", T)
     ELSE IF existingInFolder # 0 THEN Return("NAME_CONFLICT", T)
     ELSE IF ~moveResult.success
     THEN Return(moveResult.error, WithDisk(T, DiskOf(moveResult)))
     ELSE saveLibrary(moved, fm)

updateRecordingIn(T, recording, fm) ==
  LET index == FindIndex(T.recordings, LAMBDA r : r.id = recording.id)
  IN IF index = 0 THEN Return("FILE_NOT_FOUND", T)
     ELSE saveLibrary([T EXCEPT !.recordings[index] = recording], fm)

renameRecordingIn(T, id, newFilename, fm) ==
  LET i == FindIndex(T.recordings, LAMBDA r : r.id = id)
      recording == T.recordings[i]
      D == [dirs |-> T.dirs, files |-> T.files]
      diskPath == getRecordingDiskPath(recording, T.folders)
      readResult == readFile(D, diskPath, recording.filename)
      writeResult == writeFile(D, diskPath, newFilename, readResult.data, fm)
      deleteResult == deleteFile(DiskOf(writeResult), diskPath, recording.filename, fm)
  IN IF i = 0 THEN Return("FILE_NOT_FOUND", T)
     ELSE IF ~readResult.success THEN Return(readResult.error, T)
     ELSE IF ~writeResult.success
     THEN Return(writeResult.error, WithDisk(T, DiskOf(writeResult)))
     ELSE saveLibrary([WithDisk(T, DiskOf(deleteResult)) EXCEPT
                         !.recordings[i].filename = newFilename], fm)

\* a bulk replace that commits the list as passed (C20 fails on it)
dedupeKeepingAll(recs, seenIds, deduped) == deduped \o recs

RECURSIVE dedupeById(_, _, _)
\* the seenIds loop: keep the first entry of every id, in order
dedupeById(recs, seenIds, deduped) ==
  IF recs = <<>> THEN deduped
  ELSE IF Head(recs).id \in seenIds THEN dedupeById(Tail(recs), seenIds, deduped)
  ELSE dedupeById(Tail(recs), seenIds \cup {Head(recs).id}, Append(deduped, Head(recs)))

updateRecordingsIn(T, list, fm) ==
  saveLibrary([T EXCEPT !.recordings = dedupeById(list, {}, <<>>)], fm)

updateFoldersIn(T, list, fm) ==
  saveLibrary([T EXCEPT !.folders = list], fm)

\* initialize after fs.initialize(handle): the permission check, the load, the
\* fresh index or the de-duplication; the results of both saves are not looked at
initializeIn(T, handleData, permissionStatus, fm) ==
  LET libraryResult == readLibrary(T.persisted, fm)
      dedupedRecordings == dedupeById(libraryResult.data.recordings, {}, <<>>)
      library == [T EXCEPT !.recordings = dedupedRecordings,
                           !.folders = libraryResult.data.folders]
  IN IF ~handleData THEN Return("NO_FOLDER_SELECTED", T)
     ELSE IF permissionStatus = "denied" THEN Return("PERMISSION_DENIED", T)
     ELSE IF permissionStatus = "prompt" THEN Return("PERMISSION_PROMPT_NEEDED", T)
     ELSE IF ~libraryResult.success THEN Return(libraryResult.error, T)
     ELSE IF libraryResult.data.state = "absent"
          \/ Len(dedupedRecordings) # Len(libraryResult.data.recordings)
     THEN Return("ok", DataOf(saveLibrary(library, fm)))
     ELSE Return("ok", library)

\* ----- a call between its awaits ------------------------------------------------
\* no call has been issued
NoCalls == <<>>

\* a call suspended at the await named by pc: the handler's locals (the path it
\* computed, the entry it will push, the audio), the document writeLibrary
\* serialised when it was called, and the result once pc is "returned"
PendingCall(op, pc, path, entry, blob, fm) ==
  [op |-> op, pc |-> pc, path |-> path, entry |-> entry, blob |-> blob, fm |-> fm,
   snapshot |-> NoDocument, result |-> ""]

ReturnedCall(c, result) == [c EXCEPT !.pc = "returned", !.result = result]

\* createFolder up to `await this.fs.getOrCreateDirectory(folderPath)`
createFolderCall(T, name, parentId, fm) ==
  PendingCall("createFolder", "getOrCreateDirectory",
              buildFolderPath(parentId, T.folders) \o <<name>>,
              [id |-> NULL, name |-> name, parentId |-> parentId], "", fm)

\* a createFolder that goes on to the index when the directory could not be
\* made (C21 fails on it)
createFolderResumeUnchecked(T, c, newId) ==
  LET dirResult == getOrCreateDirectory([dirs |-> T.dirs, files |-> T.files],
                                        c.path, c.fm)
      newFolder == [c.entry EXCEPT !.id = newId]
      T1 == [WithDisk(T, DiskOf(dirResult)) EXCEPT !.folders = Append(@, newFolder)]
  IN [data |-> T1,
      call |-> [c EXCEPT !.pc = "writeLibrary", !.entry = newFolder,
                         !.snapshot = Document(T1)]]

\* createFolder from the result of getOrCreateDirectory to the await inside
\* writeLibrary: the push, and JSON.stringify of the index as it is then
createFolderResume(T, c, newId) ==
  LET dirResult == getOrCreateDirectory([dirs |-> T.dirs, files |-> T.files],
                                        c.path, c.fm)
      newFolder == [c.entry EXCEPT !.id = newId]
      T1 == [WithDisk(T, DiskOf(dirResult)) EXCEPT !.folders = Append(@, newFolder)]
  IN IF ~dirResult.success
     THEN [data |-> T, call |-> ReturnedCall(c, dirResult.error)]
     ELSE [data |-> T1,
           call |-> [c EXCEPT !.pc = "writeLibrary", !.entry = newFolder,
                              !.snapshot = Document(T1)]]

\* saveRecording up to `await this.fs.writeFile(...)`
saveRecordingCall(T, recording, wavBlob, fm) ==
  PendingCall("saveRecording", "writeFile", getRecordingDiskPath(recording, T.folders),
              recording, wavBlob, fm)

\* a saveRecording that serialises the index before it pushes the recording
\* (the amended C29 fails on it)
saveRecordingResumeStale(T, c) ==
  LET writeResult == writeFile([dirs |-> T.dirs, files |-> T.files],
                               c.path, c.entry.filename, c.blob, c.fm)
      T0 == WithDisk(T, DiskOf(writeResult))
      T1 == [T0 EXCEPT !.recordings = Append(@, c.entry)]
  IN IF ~writeResult.success
     THEN [data |-> T0, call |-> ReturnedCall(c, writeResult.error)]
     ELSE [data |-> T1, call |-> [c EXCEPT !.pc = "writeLibrary",
                                           !.snapshot = Document(T0)]]

\* saveRecording from the result of writeFile to the await inside writeLibrary
saveRecordingResume(T, c) ==
  LET writeResult == writeFile([dirs |-> T.dirs, files |-> T.files],
                               c.path, c.entry.filename, c.blob, c.fm)
      T1 == [WithDisk(T, DiskOf(writeResult)) EXCEPT !.recordings = Append(@, c.entry)]
  IN IF ~writeResult.success
     THEN [data |-> WithDisk(T, DiskOf(writeResult)),
           call |-> ReturnedCall(c, writeResult.error)]
     ELSE [data |-> T1, call |-> [c EXCEPT !.pc = "writeLibrary",
                                           !.snapshot = Document(T1)]]

\* the writeFile of writeLibrary completes: writable.close() replaces the
\* document by the text serialised when writeLibrary was called
writeLibraryResume(T, c) ==
  IF c.fm = "lib" THEN [data |-> T, call |-> ReturnedCall(c, "WRITE_FAILED")]
  ELSE [data |-> [T EXCEPT !.persisted = c.snapshot], call |-> ReturnedCall(c, "ok")]

\* nothing of the earlier version is left in the browser's stores
NoLegacy == [folders |-> <<>>, recordings |-> <<>>, blobs |-> {},
             migrationCompleted |-> FALSE]

\* ---------------------------------------------------------------------------
\* Migration Service (MigrationService) from the stores of the earlier version
\*   L.folders, L.recordings : chrome.storage.local
\*   L.blobs                 : ids that have audio in the IndexedDB store
\* failing is the set of legacy ids whose createFolder (the directory cannot be
\* made) or saveRecording (the file cannot be written) fails.
\* ---------------------------------------------------------------------------
needsMigration(L) == L.recordings # <<>> \/ L.folders # <<>> \/ L.blobs # {}

RECURSIVE depthFrom(_, _, _, _)
\* the while loop of getDepth: a missing parent still counts one level
depthFrom(currentId, fls, depth, fuel) ==
  IF currentId = NULL \/ fuel = 0 THEN depth
  ELSE LET i == FindIndex(fls, LAMBDA f : f.id = currentId)
       IN depthFrom(IF i = 0 THEN NULL ELSE fls[i].parentId, fls, depth + 1, fuel - 1)

getDepth(folder, fls) == depthFrom(folder.parentId, fls, 0, Len(fls) + 1)

RECURSIVE foldersFromDepth(_, _)
\* Array.prototype.sort is stable: by depth, then in the order of the list
foldersFromDepth(fls, d) ==
  IF d > Len(fls) + 1 THEN <<>>
  ELSE Filter(fls, LAMBDA f : getDepth(f, fls) = d) \o foldersFromDepth(fls, d + 1)

sortFoldersByDepth(fls) == foldersFromDepth(fls, 0)

\* getPath of buildFolderIdMap: the names from the root-most ancestor found
getPath(folder, fls) ==
  walkParents(folder.parentId, fls, <<folder.name>>, Len(fls) + 1)

\* newPathMap.get(path): the last folder of the list with that path, or NULL
newPathMapGet(newFolders, path) ==
  LET hits == {i \in DOMAIN newFolders : getPath(newFolders[i], newFolders) = path}
  IN IF hits = {} THEN NULL
     ELSE newFolders[CHOOSE i \in hits : \A j \in hits : j <= i].id

\* lastOf: the last entry of the list with that id
lastWithId(fls, id) ==
  fls[CHOOSE i \in DOMAIN fls : fls[i].id = id /\ \A j \in DOMAIN fls : fls[j].id = id => j <= i]

\* the old-id -> new-id Map, as a function on the ids that got an entry
buildFolderIdMap(oldFolders, newFolders) ==
  [id \in {f.id : f \in {g \in Range(oldFolders) :
                            newPathMapGet(newFolders, getPath(g, oldFolders)) # NULL}} |->
     newPathMapGet(newFolders, getPath(lastWithId(oldFolders, id), oldFolders))]

\* rec.filename.replace(/\.(webm|wav)$/i, '.wav')
wavFilename(filename) ==
  CASE filename = "x.webm" -> "x.wav"
    [] filename = "y.webm" -> "y.wav"
    [] OTHER -> filename

RECURSIVE createLegacyFolders(_, _, _)
\* Step 1: createFolder(folder.name, folder.parentId, ...) for every legacy
\* folder, a failure only logged; S.uuids counts the ids handed out
createLegacyFolders(S, sorted, failing) ==
  IF sorted = <<>> THEN S
  ELSE LET folder == Head(sorted)
           R == createFolderIn(S.data, FolderIdSeq[S.uuids + 1], folder.name,
                               folder.parentId,
                               IF folder.id \in failing THEN "mkdir" ELSE "none")
       IN createLegacyFolders([data |-> DataOf(R),
                               uuids |-> IF R.result = "ok" THEN S.uuids + 1 ELSE S.uuids],
                              Tail(sorted), failing)

\* the recording saveRecording is called with
migratedRecording(rec, folderIdMap) ==
  [rec EXCEPT !.folderId = IF rec.folderId = UNCATEGORIZED THEN UNCATEGORIZED
                           ELSE IF rec.folderId \in DOMAIN folderIdMap
                           THEN folderIdMap[rec.folderId] ELSE UNCATEGORIZED,
              !.filename = wavFilename(rec.filename)]

RECURSIVE saveLegacyRecordings(_, _, _, _, _, _)
\* Step 2 up to the recording at which getAudioBlob rejects (stopAt; 0 when it
\* never does): a recording without audio is skipped, a failed save only logged
saveLegacyRecordings(T, recs, blobs, folderIdMap, failing, stopAt) ==
  IF recs = <<>> \/ stopAt = 1 THEN T
  ELSE LET rec == Head(recs)
           next == IF stopAt = 0 THEN 0 ELSE stopAt - 1
       IN IF rec.id \notin blobs
          THEN saveLegacyRecordings(T, Tail(recs), blobs, folderIdMap, failing, next)
          ELSE saveLegacyRecordings(
                 DataOf(saveRecordingIn(T, migratedRecording(rec, folderIdMap),
                                        BlobSeq[CHOOSE i \in 1..Len(RecIdSeq) : RecIdSeq[i] = rec.id],
                                        IF rec.id \in failing THEN "write" ELSE "none")),
                 Tail(recs), blobs, folderIdMap, failing, next)

\* cleanupOldStorage: clearAllAudio, remove(recordings, folders), set(flag); the
\* first call that throws ("audio", "remove" or "set") ends it, logged only
cleanupOldStorage(L, cleanupFm) ==
  IF cleanupFm = "audio" THEN L
  ELSE IF cleanupFm = "remove" THEN [L EXCEPT !.blobs = {}]
  ELSE IF cleanupFm = "set"
  THEN [L EXCEPT !.blobs = {}, !.recordings = <<>>, !.folders = <<>>]
  ELSE [blobs |-> {}, recordings |-> <<>>, folders |-> <<>>, migrationCompleted |-> TRUE]

\* migrate from the folder id map on; S is the store after Step 1
migrateRecordings(S, L, folderIdMap, failing, stopAt, cleanupFm) ==
  LET T2 == saveLegacyRecordings(S.data, L.recordings, L.blobs, folderIdMap,
                                 failing, stopAt)
  IN IF stopAt \in 1..Len(L.recordings)
     THEN [result |-> "WRITE_FAILED", data |-> T2, uuids |-> S.uuids, legacy |-> L]
     ELSE [result |-> "ok", data |-> T2, uuids |-> S.uuids,
           legacy |-> cleanupOldStorage(L, cleanupFm)]

migrateFrom(S, L, failing, stopAt, cleanupFm) ==
  migrateRecordings(S, L, buildFolderIdMap(L.folders, S.data.folders), failing,
                    stopAt, cleanupFm)

\* MigrationService.migrate; thrown: chrome.storage.local.get rejects ("get"),
\* getAudioBlob rejects at recording stopAt ("blob"), or nothing is thrown
migrateIn(T, L, uuidsUsed, failing, thrown, stopAt, cleanupFm) ==
  IF thrown = "get"
  THEN [result |-> "WRITE_FAILED", data |-> T, uuids |-> uuidsUsed, legacy |-> L]
  ELSE migrateFrom(createLegacyFolders([data |-> T, uuids |-> uuidsUsed],
                                       sortFoldersByDepth(L.folders), failing),
                   L, failing, IF thrown = "blob" THEN stopAt ELSE 0, cleanupFm)

\* ---------------------------------------------------------------------------
\* The state machine: one action per public method of the service
\* ---------------------------------------------------------------------------
Init ==
  /\ loaded = FALSE
  /\ initialized = FALSE
  /\ folders = <<>>
  /\ recordings = <<>>
  /\ dirs = {<<>>}
  /\ files = [k \in {} |-> ""]
  /\ persisted = NoDocument
  /\ dirHandle = FALSE
  /\ rootHandle = FALSE
  /\ permission = "prompt"
  /\ uuids = 0
  /\ nops = 0
  /\ inflight = NoCalls
  /\ legacy = NoLegacy
  /\ last = [op |-> "new", id |-> NULL, arg |-> NULL, arg2 |-> NULL,
             result |-> "ok", fm |-> "none", writes |-> 0]

\* ids a caller can hold: those of the folders created so far
KnownFolderIds == {FolderIdSeq[i] : i \in 1..uuids}
KnownRecIds == {r.id : r \in Range(recordings)}

\* the handler returned R: its data becomes the service's
Returned(R, op, id, arg, arg2, fm) ==
  /\ folders' = R.folders
  /\ recordings' = R.recordings
  /\ dirs' = R.dirs
  /\ files' = R.files
  /\ persisted' = R.persisted
  /\ nops' = nops + 1
  /\ last' = [op |-> op, id |-> id, arg |-> arg, arg2 |-> arg2,
              result |-> R.result, fm |-> fm, writes |-> R.writes]

\* if (!this.library) return err({ type: 'INVALID_OPERATION', ... })
Guarded(R) == IF ~loaded THEN Return("INVALID_OPERATION", Here) ELSE R

\* what a call leaves in last when it is not a handler on the index
Outcome(op, id, arg, result, fm, writes) ==
  [op |-> op, id |-> id, arg |-> arg, arg2 |-> NULL, result |-> result,
   fm |-> fm, writes |-> writes]

\* "Create or load library" of selectFolder: no de-duplication, and the result
\* of saving the fresh index is not looked at
loadSelected(T, fm) ==
  LET libraryResult == readLibrary(T.persisted, fm)
  IN IF ~libraryResult.success THEN Return(libraryResult.error, T)
     ELSE IF libraryResult.data.state = "absent"
     THEN Return("ok", DataOf(saveLibrary([T EXCEPT !.recordings = <<>>,
                                                     !.folders = <<>>], fm)))
     ELSE Return("ok", [T EXCEPT !.recordings = libraryResult.data.recordings,
                                 !.folders = libraryResult.data.folders])

\* a load that returned R makes the service Ready when it succeeded and leaves
\* this.library and this.initialized alone when it did not
Loaded(R, op, fm) ==
  /\ loaded' = (loaded \/ R.result = "ok")
  /\ initialized' = (initialized \/ R.result = "ok")
  /\ Returned(R, op, NULL, NULL, NULL, fm)

selectFolder(cancel, fm) ==
  IF cancel
  THEN /\ last' = Outcome("selectFolder", NULL, NULL, "NO_FOLDER_SELECTED", fm, 0)
       /\ nops' = nops + 1
       /\ UNCHANGED <<loaded, initialized, folders, recordings, dirs, files, persisted,
                      dirHandle, rootHandle, permission, uuids, inflight, legacy>>
  ELSE /\ dirHandle' = TRUE
       /\ rootHandle' = TRUE
       /\ permission' = "granted"
       /\ Loaded(loadSelected(Here, fm), "selectFolder", fm)
       /\ UNCHANGED <<uuids, inflight, legacy>>

initialize(fm) ==
  /\ rootHandle' = (rootHandle \/ dirHandle)
  /\ Loaded(initializeIn(Here, dirHandle, permission, fm), "initialize", fm)
  /\ UNCHANGED <<dirHandle, permission, uuids, inflight, legacy>>

\* requestPermission: the browser answers "granted" at once when the permission
\* is held, otherwise with the user's answer ("prompt" when the prompt is
\* dismissed)
requestPermission(answer, fm) ==
  IF rootHandle /\ (permission = "granted" \/ answer = "granted")
  THEN /\ permission' = "granted"
       /\ Loaded(initializeIn(Here, dirHandle, "granted", fm), "requestPermission", fm)
       /\ UNCHANGED <<dirHandle, rootHandle, uuids, inflight, legacy>>
  ELSE /\ permission' = IF rootHandle THEN answer ELSE permission
       /\ last' = Outcome("requestPermission", NULL, NULL, "PERMISSION_DENIED", fm, 0)
       /\ nops' = nops + 1
       /\ UNCHANGED <<loaded, initialized, folders, recordings, dirs, files, persisted,
                      dirHandle, rootHandle, uuids, inflight, legacy>>

\* clearFolder: the stored handle and the in-memory index are dropped
clearFolder ==
  /\ dirHandle' = FALSE
  /\ loaded' = FALSE
  /\ initialized' = FALSE
  /\ folders' = <<>>
  /\ recordings' = <<>>
  /\ last' = Outcome("clearFolder", NULL, NULL, "ok", "none", 0)
  /\ nops' = nops + 1
  /\ UNCHANGED <<dirs, files, persisted, rootHandle, permission, uuids, inflight, legacy>>

createFolder(name, parentId, fm) ==
  /\ uuids < MaxFolders
  /\ Returned(Guarded(createFolderIn(Here, FolderIdSeq[uuids + 1], name, parentId, fm)),
              "createFolder", FolderIdSeq[uuids + 1], parentId, name, fm)
  /\ uuids' = IF loaded THEN uuids + 1 ELSE uuids
  /\ UNCHANGED <<loaded, initialized, dirHandle, rootHandle, permission, inflight, legacy>>

renameFolder(id, newName, fm) ==
  /\ Returned(Guarded(renameFolderIn(Here, id, newName, fm)),
              "renameFolder", id, newName, NULL, fm)
  /\ UNCHANGED <<loaded, initialized, dirHandle, rootHandle, permission, uuids, inflight, legacy>>

moveFolder(id, newParentId, fm) ==
  /\ Returned(Guarded(moveFolderIn(Here, id, newParentId, fm)),
              "moveFolder", id, newParentId, NULL, fm)
  /\ UNCHANGED <<loaded, initialized, dirHandle, rootHandle, permission, uuids, inflight, legacy>>

deleteFolder(id, deleteChildren, fm) ==
  /\ Returned(Guarded(deleteFolderIn(Here, id, deleteChildren, fm, Len(folders) + 1)),
              "deleteFolder", id, IF deleteChildren THEN "true" ELSE "false", NULL, fm)
  /\ UNCHANGED <<loaded, initialized, dirHandle, rootHandle, permission, uuids, inflight, legacy>>

saveRecording(recording, wavBlob, fm) ==
  /\ Len(recordings) < MaxRecordings
  /\ Returned(Guarded(saveRecordingIn(Here, recording, wavBlob, fm)),
              "saveRecording", recording.id, recording.folderId, NULL, fm)
  /\ UNCHANGED <<loaded, initialized, dirHandle, rootHandle, permission, uuids, inflight, legacy>>

deleteRecording(id, deleteChildren, fm) ==
  /\ Returned(Guarded(deleteRecordingIn(Here, id, deleteChildren, fm)),
              "deleteRecording", id, IF deleteChildren THEN "true" ELSE "false", NULL, fm)
  /\ UNCHANGED <<loaded, initialized, dirHandle, rootHandle, permission, uuids, inflight, legacy>>

moveRecording(id, newFolderId, fm) ==
  /\ Returned(Guarded(moveRecordingIn(Here, id, newFolderId, fm)),
              "moveRecording", id, newFolderId, NULL, fm)
  /\ UNCHANGED <<loaded, initialized, dirHandle, rootHandle, permission, uuids, inflight, legacy>>

moveRecordingWithRename(id, newFolderId, newTitle, fm) ==
  /\ Returned(Guarded(moveRecordingWithRenameIn(Here, id, newFolderId, newTitle, fm)),
              "moveRecordingWithRename", id, newFolderId, newTitle, fm)
  /\ UNCHANGED <<loaded, initialized, dirHandle, rootHandle, permission, uuids, inflight, legacy>>

updateRecording(recording, fm) ==
  /\ Returned(Guarded(updateRecordingIn(Here, recording, fm)),
              "updateRecording", recording.id, NULL, NULL, fm)
  /\ UNCHANGED <<loaded, initialized, dirHandle, rootHandle, permission, uuids, inflight, legacy>>

renameRecording(id, newFilename, fm) ==
  /\ Returned(Guarded(renameRecordingIn(Here, id, newFilename, fm)),
              "renameRecording", id, newFilename, NULL, fm)
  /\ UNCHANGED <<loaded, initialized, dirHandle, rootHandle, permission, uuids, inflight, legacy>>

\* last.arg is the list passed
updateRecordings(list, fm) ==
  /\ Returned(Guarded(updateRecordingsIn(Here, list, fm)),
              "updateRecordings", NULL, list, NULL, fm)
  /\ UNCHANGED <<loaded, initialized, dirHandle, rootHandle, permission, uuids, inflight, legacy>>

updateFolders(list, fm) ==
  /\ Returned(Guarded(updateFoldersIn(Here, list, fm)),
              "updateFolders", NULL, NULL, NULL, fm)
  /\ UNCHANGED <<loaded, initialized, dirHandle, rootHandle, permission, uuids, inflight, legacy>>

\* getRecordingBlob(id): last.arg is the content returned (null on an error)
getRecordingBlob(id) ==
  LET result == IF ~loaded
                THEN [success |-> FALSE, error |-> "INVALID_OPERATION", data |-> ""]
                ELSE getRecordingBlobIn(Here, id)
  IN /\ last' = Outcome("getRecordingBlob", id,
                        IF result.success THEN result.data ELSE NULL,
                        ResultOf(result), "none", 0)
     /\ nops' = nops + 1
     /\ UNCHANGED <<loaded, initialized, folders, recordings, dirs, files, persisted,
                    dirHandle, rootHandle, permission, uuids, inflight, legacy>>

\* ----- calls that are not awaited: one action per stretch between awaits --------
Pending == {k \in DOMAIN inflight : inflight[k].pc # "returned"}

\* the call is issued: it runs to its first await, or returns at once
Issued(c) ==
  /\ inflight' = Append(inflight, IF loaded THEN c
                                  ELSE ReturnedCall(c, "INVALID_OPERATION"))
  /\ nops' = nops + 1
  /\ last' = IF loaded THEN last
             ELSE Outcome(c.op, c.entry.id, NULL, "INVALID_OPERATION", c.fm, 0)
  /\ UNCHANGED <<loaded, initialized, folders, recordings, dirs, files, persisted,
                 dirHandle, rootHandle, permission, uuids, legacy>>

\* call k ran from one await to the next (R.call), leaving R.data
Resumed(R, k) ==
  /\ folders' = R.data.folders
  /\ recordings' = R.data.recordings
  /\ dirs' = R.data.dirs
  /\ files' = R.data.files
  /\ persisted' = R.data.persisted
  /\ inflight' = [inflight EXCEPT ![k] = R.call]
  /\ last' = IF R.call.pc = "returned"
             THEN Outcome(R.call.op, R.call.entry.id, NULL, R.call.result, R.call.fm, 0)
             ELSE last
  /\ UNCHANGED <<loaded, initialized, dirHandle, rootHandle, permission, nops, legacy>>

createFolderIssued(name, parentId, fm) ==
  Issued(createFolderCall(Here, name, parentId, fm))

createFolderResumed(k) ==
  /\ inflight[k].op = "createFolder" /\ inflight[k].pc = "getOrCreateDirectory"
  /\ uuids < MaxFolders
  /\ Resumed(createFolderResume(Here, inflight[k], FolderIdSeq[uuids + 1]), k)
  /\ uuids' = uuids + 1

saveRecordingIssued(recording, wavBlob, fm) ==
  Issued(saveRecordingCall(Here, recording, wavBlob, fm))

saveRecordingResumed(k) ==
  /\ inflight[k].op = "saveRecording" /\ inflight[k].pc = "writeFile"
  /\ Resumed(saveRecordingResume(Here, inflight[k]), k)
  /\ UNCHANGED uuids

writeLibraryResumed(k) ==
  /\ inflight[k].pc = "writeLibrary"
  /\ Resumed(writeLibraryResume(Here, inflight[k]), k)
  /\ UNCHANGED uuids

\* the page is closed or crashes: the service object and its pending calls are
\* gone, the disk and the browser's stores stay
pageClosed ==
  /\ loaded' = FALSE
  /\ initialized' = FALSE
  /\ folders' = <<>>
  /\ recordings' = <<>>
  /\ rootHandle' = FALSE
  /\ inflight' = NoCalls
  /\ nops' = nops + 1
  /\ last' = Outcome("pageClosed", NULL, NULL, "ok", "none", 0)
  /\ UNCHANGED <<dirs, files, persisted, dirHandle, permission, uuids, legacy>>

\* migrate returned R
Migrated(R, failing, thrown, stopAt, cleanupFm) ==
  /\ folders' = R.data.folders
  /\ recordings' = R.data.recordings
  /\ dirs' = R.data.dirs
  /\ files' = R.data.files
  /\ persisted' = R.data.persisted
  /\ uuids' = R.uuids
  /\ legacy' = R.legacy
  /\ nops' = nops + 1
  /\ last' = [op |-> "migrate", id |-> thrown, arg |-> failing, arg2 |-> stopAt,
              result |-> R.result, fm |-> cleanupFm, writes |-> R.data.writes]

\* the startup of the popup, right after a successful initialize or folder
\* selection:
\* if (await MigrationService.needsMigration()) await MigrationService.migrate(storage)
migrate(failing, thrown, stopAt, cleanupFm) ==
  /\ loaded
  /\ last.op \in {"initialize", "selectFolder"} /\ last.result = "ok"
  /\ needsMigration(legacy)
  /\ uuids + Len(legacy.folders) <= Len(FolderIdSeq)
  /\ Migrated(migrateIn(Here, legacy, uuids, failing, thrown, stopAt, cleanupFm),
              failing, thrown, stopAt, cleanupFm)
  /\ UNCHANGED <<loaded, initialized, dirHandle, rootHandle, permission, inflight>>

\* ----- the inputs callers draw ------------------------------------------------
FolderTargets == {UNCATEGORIZED} \cup KnownFolderIds
ParentTargets == {NULL} \cup KnownFolderIds

\* the first id of the universe that no entry of the index uses
FreshRecIds ==
  {RecIdSeq[i] : i \in {j \in 1..MaxRecIds :
      /\ RecIdSeq[j] \notin KnownRecIds
      /\ \A k \in 1..(j - 1) : RecIdSeq[k] \in KnownRecIds}}

\* ids a caller passes: one of the index, or one the index does not hold
RecIdInputs == KnownRecIds \cup FreshRecIds

\* every recording id has its own audio
BlobOf(id) == BlobSeq[CHOOSE i \in 1..Len(RecIdSeq) : RecIdSeq[i] = id]

\* a recording as the app builds it: placed in a known folder, optionally a
\* crop of a recording of the index
RecordingInputs ==
  [id : RecIdInputs, filename : Filenames, folderId : FolderTargets,
   parentId : {NULL} \cup KnownRecIds, tabTitle : Titles]

\* metadata edits of an entry of the index: a new folder, title or parent
RecordingEdits ==
  {[r EXCEPT !.folderId = f] : r \in Range(recordings), f \in FolderTargets}
  \cup {[r EXCEPT !.tabTitle = t] : r \in Range(recordings), t \in Titles}
  \cup {[r EXCEPT !.parentId = NULL] : r \in Range(recordings)}

Reverse(s) == [i \in 1..Len(s) |-> s[Len(s) + 1 - i]]

\* the lists a reorder passes: the index reversed, or with one entry repeated
ReorderInputs ==
  {Reverse(recordings)} \cup {Append(recordings, r) : r \in Range(recordings)}

\* the session has made fewer than n calls
Within(n) == nops < n

Next ==
  \/ \E cancel \in BOOLEAN : Within(MaxOps) /\ selectFolder(cancel, "none")
  \/ \E name \in FolderNames, parentId \in ParentTargets, fm \in {"none", "mkdir"} :
        Within(MaxOps) /\ createFolder(name, parentId, fm)
  \/ \E id \in KnownFolderIds, newName \in FolderNames, fm \in {"none", "write"} :
        Within(MaxOps) /\ renameFolder(id, newName, fm)
  \/ \E id \in KnownFolderIds, newParentId \in ParentTargets, fm \in {"none", "write"} :
        Within(MaxOps) /\ moveFolder(id, newParentId, fm)
  \/ \E id \in KnownFolderIds, deleteChildren \in BOOLEAN,
        fm \in {"none", "write", "delete"} :
        Within(MaxOps) /\ deleteFolder(id, deleteChildren, fm)
  \/ \E recording \in RecordingInputs, fm \in {"none", "write"} :
        Within(MaxOps) /\ saveRecording(recording, BlobOf(recording.id), fm)
  \/ \E id \in RecIdInputs, deleteChildren \in BOOLEAN, fm \in {"none", "delete"} :
        Within(MaxOps) /\ deleteRecording(id, deleteChildren, fm)
  \/ \E id \in RecIdInputs, newFolderId \in FolderTargets, fm \in {"none", "write"} :
        Within(MaxOps) /\ moveRecording(id, newFolderId, fm)
  \/ \E id \in RecIdInputs, newFolderId \in FolderTargets, newTitle \in Titles,
        fm \in {"none", "write"} :
        Within(MaxOps) /\ moveRecordingWithRename(id, newFolderId, newTitle, fm)
  \/ \E recording \in RecordingEdits :
        Within(MaxOps) /\ updateRecording(recording, "none")
  \/ \E id \in RecIdInputs, newFilename \in Filenames, fm \in {"none", "write"} :
        Within(MaxOps) /\ renameRecording(id, newFilename, fm)
  \/ \E list \in ReorderInputs :
        Within(MaxOps) /\ updateRecordings(list, "none")

Spec == Init /\ [][Next]_vars

\* ----- the folder tree alone: createFolder, renameFolder, moveFolder and
\* deleteFolder from an empty index ---------------------------------------------
FoldersNext ==
  \/ \E cancel \in BOOLEAN : Within(MaxFolderOps) /\ selectFolder(cancel, "none")
  \/ \E name \in FolderNames, parentId \in ParentTargets, fm \in {"none", "mkdir"} :
        Within(MaxFolderOps) /\ createFolder(name, parentId, fm)
  \/ \E id \in KnownFolderIds, newName \in FolderNames, fm \in {"none", "delete"} :
        Within(MaxFolderOps) /\ renameFolder(id, newName, fm)
  \/ \E id \in KnownFolderIds, newParentId \in ParentTargets, fm \in {"none", "delete"} :
        Within(MaxFolderOps) /\ moveFolder(id, newParentId, fm)
  \/ \E id \in KnownFolderIds, deleteChildren \in BOOLEAN, fm \in {"none", "delete"} :
        Within(MaxFolderOps) /\ deleteFolder(id, deleteChildren, fm)

SpecFolders == Init /\ [][FoldersNext]_vars

\* ----- a folder of recordings and crops, built and then deleted ----------------
\* every recording id has its own file name
FilenameOf(id) == FilenameSeq[CHOOSE i \in 1..Len(RecIdSeq) : RecIdSeq[i] = id]

\* new recordings, each under its own file name, optionally crops
CropInputs ==
  {[id |-> id, filename |-> FilenameOf(id), folderId |-> f, parentId |-> p,
    tabTitle |-> "T1"] :
     id \in FreshRecIds, f \in FolderTargets, p \in {NULL} \cup KnownRecIds}

SubtreeNext ==
  \/ Within(MaxSubtreeOps) /\ selectFolder(FALSE, "none")
  \/ \E name \in FolderNames, parentId \in ParentTargets :
        Within(MaxSubtreeOps) /\ createFolder(name, parentId, "none")
  \/ \E recording \in CropInputs :
        Within(MaxSubtreeOps) /\ saveRecording(recording, BlobOf(recording.id), "none")
  \/ \E id \in KnownFolderIds, deleteChildren \in BOOLEAN, fm \in {"none", "delete"} :
        Within(MaxSubtreeOps) /\ deleteFolder(id, deleteChildren, fm)

SpecSubtree == Init /\ [][SubtreeNext]_vars

\* ----- recordings saved, re-filed by metadata edits, and read back --------------
PlaybackNext ==
  \/ Within(MaxPlaybackOps) /\ selectFolder(FALSE, "none")
  \/ \E name \in FolderNames, parentId \in ParentTargets :
        Within(MaxPlaybackOps) /\ createFolder(name, parentId, "none")
  \/ \E recording \in RecordingInputs :
        Within(MaxPlaybackOps) /\ saveRecording(recording, BlobOf(recording.id), "none")
  \/ \E recording \in RecordingEdits :
        Within(MaxPlaybackOps) /\ updateRecording(recording, "none")
  \/ \E id \in RecIdInputs :
        Within(MaxPlaybackOps) /\ getRecordingBlob(id)

SpecPlayback == Init /\ [][PlaybackNext]_vars

\* ----- a session on a root that an earlier session left behind ------------------
StoredRecording(title) ==
  [id |-> "r1", filename |-> "x.wav", folderId |-> UNCATEGORIZED, parentId |-> NULL,
   tabTitle |-> title]

\* what the root can hold when the page opens: no index document, one that is
\* not valid JSON, an empty one, one recording, or the same id twice (the
\* duplicate entries an interrupted bulk save leaves)
StoredRoots ==
  {[persisted |-> NoDocument, files |-> [k \in {} |-> ""]],
   [persisted |-> Malformed, files |-> [k \in {} |-> ""]],
   [persisted |-> [state |-> "valid", recordings |-> <<>>, folders |-> <<>>],
    files |-> [k \in {} |-> ""]],
   [persisted |-> [state |-> "valid", recordings |-> <<StoredRecording("T1")>>,
                   folders |-> <<>>],
    files |-> (<<<<>>, "x.wav">> :> "b1")],
   [persisted |-> [state |-> "valid",
                   recordings |-> <<StoredRecording("T1"), StoredRecording("T2")>>,
                   folders |-> <<>>],
    files |-> (<<<<>>, "x.wav">> :> "b1")]}

InitStored ==
  /\ loaded = FALSE
  /\ initialized = FALSE
  /\ folders = <<>>
  /\ recordings = <<>>
  /\ dirs = {<<>>}
  /\ \E root \in StoredRoots :
        /\ persisted = root.persisted
        /\ files = root.files
  /\ dirHandle \in BOOLEAN
  /\ rootHandle = FALSE
  /\ permission \in IF dirHandle THEN {"granted", "prompt", "denied"} ELSE {"prompt"}
  /\ uuids = 0
  /\ nops = 0
  /\ inflight = NoCalls
  /\ legacy = NoLegacy
  /\ last = [op |-> "new", id |-> NULL, arg |-> NULL, arg2 |-> NULL,
             result |-> "ok", fm |-> "none", writes |-> 0]

SessionNext ==
  \/ \E fm \in {"none", "read", "lib"} : Within(MaxSessionOps) /\ initialize(fm)
  \/ \E answer \in {"granted", "denied", "prompt"} :
        Within(MaxSessionOps) /\ requestPermission(answer, "none")
  \/ \E cancel \in BOOLEAN, fm \in {"none", "read", "lib"} :
        Within(MaxSessionOps) /\ selectFolder(cancel, fm)
  \/ Within(MaxSessionOps) /\ clearFolder
  \/ \E name \in FolderNames, parentId \in ParentTargets, fm \in {"none", "lib"} :
        Within(MaxSessionOps) /\ createFolder(name, parentId, fm)
  \/ \E recording \in RecordingInputs, fm \in {"none", "lib"} :
        Within(MaxSessionOps) /\ saveRecording(recording, BlobOf(recording.id), fm)
  \/ \E list \in ReorderInputs :
        Within(MaxSessionOps) /\ updateRecordings(list, "none")
  \/ Within(MaxSessionOps) /\ updateFolders(Reverse(folders), "none")

SpecSession == InitStored /\ [][SessionNext]_vars

\* ----- calls issued without awaiting the one before, and page closes ------------
\* ids of the recordings of calls that have not returned
PendingRecIds == {inflight[k].entry.id : k \in {j \in Pending : inflight[j].op = "saveRecording"}}

\* the first id of the universe that neither the index nor a pending call uses
UnusedRecIds ==
  {RecIdSeq[i] : i \in {j \in 1..MaxRecIds :
      /\ RecIdSeq[j] \notin KnownRecIds \cup PendingRecIds
      /\ \A k \in 1..(j - 1) : RecIdSeq[k] \in KnownRecIds \cup PendingRecIds}}

\* a new recording under an id and a file name of its own
NewRecordingInputs ==
  {[id |-> id, filename |-> FilenameOf(id), folderId |-> f, parentId |-> NULL,
    tabTitle |-> "T1"] : id \in UnusedRecIds, f \in FolderTargets}

CallsNext ==
  \/ Pending = {} /\ Within(MaxCallOps) /\ selectFolder(FALSE, "none")
  \/ Pending = {} /\ Within(MaxCallOps) /\ initialize("none")
  \/ \E name \in FolderNames, parentId \in ParentTargets, fm \in {"none", "mkdir"} :
        /\ Within(MaxCallOps) /\ Cardinality(Pending) < MaxPending
        /\ createFolderIssued(name, parentId, fm)
  \/ \E k \in Pending : createFolderResumed(k)
  \/ \E recording \in NewRecordingInputs, fm \in {"none", "lib"} :
        /\ Within(MaxCallOps) /\ Cardinality(Pending) < MaxPending
        /\ saveRecordingIssued(recording, BlobOf(recording.id), fm)
  \/ \E k \in Pending : saveRecordingResumed(k)
  \/ \E k \in Pending : writeLibraryResumed(k)
  \/ Within(MaxCallOps) /\ pageClosed

SpecCalls == Init /\ [][CallsNext]_vars

\* ----- the first startups on a browser that holds data of the earlier version ---
\* folder lists of n folders: a folder's parent, if any, has an earlier id
LegacyTrees(n) ==
  {[i \in 1..n |-> [id |-> LegacyFolderIdSeq[i], name |-> names[i],
                      parentId |-> parents[i]]] :
     names \in [1..n -> FolderNames],
     parents \in {p \in [1..n -> {NULL} \cup {LegacyFolderIdSeq[j] : j \in 1..n}] :
                   \A i \in 1..n : p[i] = NULL
                                    \/ \E j \in 1..(i - 1) : p[i] = LegacyFolderIdSeq[j]}}

\* in storage order parents first, or children first
LegacyFolderLists ==
  UNION {LegacyTrees(n) \cup {Reverse(t) : t \in LegacyTrees(n)} :
           n \in 0..MaxLegacyFolders}

\* n recordings, each in the root or in one of the folders
LegacyRecordingLists(fls, n) ==
  {[i \in 1..n |-> [id |-> RecIdSeq[i], filename |-> LegacyFilenameSeq[i],
                      folderId |-> places[i], parentId |-> NULL, tabTitle |-> "T1"]] :
     places \in [1..n -> {UNCATEGORIZED} \cup {f.id : f \in Range(fls)}]}

\* what the earlier version left: folders, recordings, and audio for some of
\* the recordings
LegacyStoresOf(fls, recs) ==
  {[folders |-> fls, recordings |-> recs, blobs |-> blobs, migrationCompleted |-> FALSE] :
     blobs \in SUBSET {r.id : r \in Range(recs)}}

LegacyStores ==
  UNION {UNION {LegacyStoresOf(fls, recs) :
                  recs \in UNION {LegacyRecordingLists(fls, n) :
                                    n \in 0..MaxLegacyRecordings}} :
           fls \in LegacyFolderLists}

InitLegacy ==
  /\ loaded = FALSE
  /\ initialized = FALSE
  /\ folders = <<>>
  /\ recordings = <<>>
  /\ dirs = {<<>>}
  /\ files = [k \in {} |-> ""]
  /\ persisted = NoDocument
  /\ dirHandle = FALSE
  /\ rootHandle = FALSE
  /\ permission = "prompt"
  /\ uuids = 0
  /\ nops = 0
  /\ inflight = NoCalls
  /\ legacy \in LegacyStores
  /\ last = [op |-> "new", id |-> NULL, arg |-> NULL, arg2 |-> NULL,
             result |-> "ok", fm |-> "none", writes |-> 0]

\* at most one thing goes wrong in a migration: one legacy item fails, or the
\* cleanup, or a read of the legacy stores
FailingInputs ==
  {{}} \cup {{x} : x \in {f.id : f \in Range(legacy.folders)}
                        \cup {r.id : r \in Range(legacy.recordings)}}

\* a page opens with selectFolder or initialize, migrates, and is closed
MigrationNext ==
  \/ ~loaded /\ Within(MaxMigrationOps) /\ selectFolder(FALSE, "none")
  \/ ~loaded /\ Within(MaxMigrationOps) /\ initialize("none")
  \/ \E failing \in FailingInputs :
        Within(MaxMigrationOps) /\ migrate(failing, "none", 0, "none")
  \/ \E cleanupFm \in {"audio", "remove", "set"} :
        Within(MaxMigrationOps) /\ migrate({}, "none", 0, cleanupFm)
  \/ Within(MaxMigrationOps) /\ migrate({}, "get", 0, "none")
  \/ \E stopAt \in 1..Len(legacy.recordings) :
        Within(MaxMigrationOps) /\ migrate({}, "blob", stopAt, "none")
  \/ loaded /\ Within(MaxMigrationOps) /\ pageClosed

SpecMigration == InitLegacy /\ [][MigrationNext]_vars

\* ---------------------------------------------------------------------------
\* Properties
\* ---------------------------------------------------------------------------
Disk == [dirs |-> dirs, files |-> files]

\* the call that just returned
Called(op) == last'.op = op /\ nops' = nops + 1
Succeeded(op) == Called(op) /\ last'.result = "ok"

RecordingAt(id) == FindIndex(recordings, LAMBDA r : r.id = id)
FolderAt(id) == FindIndex(folders, LAMBDA f : f.id = id)

RECURSIVE AncestorsUpTo(_, _, _)
\* the ids met by following parentId from id for at most n steps
AncestorsUpTo(id, fls, n) ==
  IF n = 0 \/ \A f \in Range(fls) : f.id # id THEN {}
  ELSE LET p == (CHOOSE f \in Range(fls) : f.id = id).parentId
       IN IF p = NULL THEN {} ELSE {p} \cup AncestorsUpTo(p, fls, n - 1)

Ancestors(id, fls) == AncestorsUpTo(id, fls, Len(fls) + 1)

\* recordings (by index) whose file lies, where the index expects it, in the
\* directory subtree below path
FilesBelow(path) ==
  {j \in DOMAIN recordings :
     /\ IsPrefix(path, getRecordingDiskPath(recordings[j], folders))
     /\ fileExists(Disk, getRecordingDiskPath(recordings[j], folders),
                   recordings[j].filename)}

RECURSIVE FirstOccurrences(_)
\* s without the entries whose id an earlier entry of s has
FirstOccurrences(s) ==
  IF s = <<>> THEN <<>>
  ELSE IF \E j \in 1..(Len(s) - 1) : s[j].id = Last(s).id
  THEN FirstOccurrences(Front(s))
  ELSE Append(FirstOccurrences(Front(s)), Last(s))

\* no two folders of the list with the same parent have the same name
SiblingNamesUnique(fls) ==
  \A i, j \in DOMAIN fls :
    (i # j /\ fls[i].parentId = fls[j].parentId) => fls[i].name # fls[j].name

\* the legacy recordings a migration with these failing items saves: those
\* with audio whose save does not fail, in storage order
Migratable(L, failing) ==
  Filter(L.recordings, LAMBDA r : r.id \in L.blobs /\ r.id \notin failing)

\* C1: whenever moveRecording(id, newFolderId) returns success for a recording
\* whose file the fallback search finds, a file of that name is in the
\* destination directory afterwards and the recording's folderId is newFolderId.
C1_MoveRecordingKeepsFile ==
  [][ Succeeded("moveRecording") =>
        LET i == RecordingAt(last'.id)
            r == recordings[i]
        IN findActualPath(Disk, r, folders).fileExists =>
             /\ fileExists(Disk', buildFolderPath(last'.arg, folders'), r.filename)
             /\ recordings'[i].folderId = last'.arg ]_vars

\* C2: whenever renameRecording(id, newFilename) returns success for a recording
\* whose file is at its expected path, a file named newFilename with the
\* original bytes is in that directory and the entry's filename is newFilename.
C2_RenameRecordingKeepsAudio ==
  [][ Succeeded("renameRecording") =>
        LET i == RecordingAt(last'.id)
            r == recordings[i]
            path == getRecordingDiskPath(r, folders)
        IN fileExists(Disk, path, r.filename) =>
             /\ fileExists(Disk', path, last'.arg)
             /\ files'[<<path, last'.arg>>] = files[<<path, r.filename>>]
             /\ recordings'[i].filename = last'.arg ]_vars

\* C3: whenever renameFolder(id, newName) returns success, folderPath(id) ends
\* in newName, that directory exists, and every recording file that was in the
\* folder's directory subtree is at the path the updated index gives it.
C3_RenameFolderKeepsSubtree ==
  [][ Succeeded("renameFolder") =>
        LET newPath == buildFolderPath(last'.id, folders')
        IN /\ newPath # <<>>
           /\ Last(newPath) = last'.arg
           /\ newPath \in dirs'
           /\ \A j \in FilesBelow(buildFolderPath(last'.id, folders)) :
                fileExists(Disk', getRecordingDiskPath(recordings'[j], folders'),
                           recordings'[j].filename) ]_vars

\* C4: whenever moveFolder(id, newParentId) returns success, the folder's
\* parentId is newParentId, its path is the new parent's path plus its name,
\* and every recording file that was in the folder's directory subtree is at
\* the path the updated index gives it.
C4_MoveFolderKeepsSubtree ==
  [][ Succeeded("moveFolder") =>
        LET i == FolderAt(last'.id)
        IN /\ folders'[i].parentId = last'.arg
           /\ buildFolderPath(last'.id, folders') =
                buildFolderPath(last'.arg, folders') \o <<folders'[i].name>>
           /\ \A j \in FilesBelow(buildFolderPath(last'.id, folders)) :
                fileExists(Disk', getRecordingDiskPath(recordings'[j], folders'),
                           recordings'[j].filename) ]_vars

\* C5: whenever deleteFolder(id, false) returns success, every recording that
\* was in the folder is still in the index under its id, its folderId is the
\* deleted folder's parent ('uncategorized' at root), and getRecordingBlob
\* still returns the bytes it returned before - also when a file move failed.
C5_DeleteFolderKeepsRecordings ==
  [][ (Succeeded("deleteFolder") /\ last'.arg = "false") =>
        LET parent == folders[FolderAt(last'.id)].parentId
        IN \A j \in DOMAIN recordings :
             recordings[j].folderId = last'.id =>
               /\ j \in DOMAIN recordings'
               /\ recordings'[j].id = recordings[j].id
               /\ recordings'[j].folderId =
                    (IF parent = NULL THEN UNCATEGORIZED ELSE parent)
               /\ getRecordingBlobIn(Here, recordings[j].id).success =>
                    getRecordingBlobIn(Here', recordings[j].id) =
                      getRecordingBlobIn(Here, recordings[j].id) ]_vars

\* C6: whenever deleteFolder(id, true) returns success, the index holds neither
\* the folder nor a folder below it, no recording of those folders and no
\* recording whose parentId is one of those recordings; without an adapter
\* failure the folder's directory and those recordings' files are gone.
C6_DeleteFolderRemovesSubtree ==
  [][ (Succeeded("deleteFolder") /\ last'.arg = "true") =>
        LET gone == {last'.id} \cup
                    {f.id : f \in {g \in Range(folders) :
                                     last'.id \in Ancestors(g.id, folders)}}
            goneRecs == {j \in DOMAIN recordings : recordings[j].folderId \in gone}
            goneRecIds == {recordings[j].id : j \in goneRecs}
        IN /\ \A f \in Range(folders') : f.id \notin gone
           /\ \A r \in Range(recordings') :
                r.folderId \notin gone /\ r.parentId \notin goneRecIds
           /\ last'.fm = "none" =>
                /\ buildFolderPath(last'.id, folders) \notin dirs'
                /\ \A j \in goneRecs :
                     ~fileExists(Disk', getRecordingDiskPath(recordings[j], folders),
                                 recordings[j].filename) ]_vars

\* C7: no folder is its own ancestor: following parentId from any folder ends
\* at null or at a missing folder.
C7_NoFolderCycles ==
  \A f \in Range(folders) : f.id \notin Ancestors(f.id, folders)

\* a move into another folder succeeded and left a chain of three folders
C7_Witness ==
  /\ last.op = "moveFolder" /\ last.result = "ok" /\ last.arg # NULL
  /\ Cardinality(Ancestors(last.id, folders)) >= 2
  /\ \A a \in Ancestors(last.id, folders) : FolderAt(a) # 0

\* C8: moveFolder(A, B) on a folder A of the index returns INVALID_OPERATION,
\* with index and disk unchanged, exactly when B = A or B is below A; for B
\* null or outside A's subtree it does not return INVALID_OPERATION.
C8_CycleCheckExact ==
  [][ (Called("moveFolder") /\ loaded /\ FolderAt(last'.id) # 0) =>
        IF last'.arg = last'.id \/ last'.id \in Ancestors(last'.arg, folders)
        THEN /\ last'.result = "INVALID_OPERATION"
             /\ UNCHANGED <<folders, recordings, dirs, files, persisted>>
        ELSE last'.result # "INVALID_OPERATION" ]_vars

\* moving a folder into its grandchild was rejected
C8_Witness ==
  /\ last.op = "moveFolder" /\ last.result = "INVALID_OPERATION"
  /\ FolderAt(last.id) # 0 /\ FolderAt(last.arg) # 0
  /\ folders[FolderAt(last.arg)].parentId # last.id
  /\ last.id \in Ancestors(last.arg, folders)

\* C9: no two entries of recordings share an id.
C9_UniqueRecordingIds ==
  \A i, j \in DOMAIN recordings : recordings[i].id = recordings[j].id => i = j

\* C10: a moveRecordingWithRename(id, f, t) that follows a NAME_CONFLICT of
\* moveRecording(id, f), with t used by no other recording of f, the file where
\* the fallback search finds it and no adapter failure, returns success, leaves
\* the file in folderPath(f) and sets folderId = f and tabTitle = t.
C10_RenameResolvesConflict ==
  [][ ( /\ last.op = "moveRecording" /\ last.result = "NAME_CONFLICT"
        /\ Called("moveRecordingWithRename")
        /\ last'.id = last.id /\ last'.arg = last.arg /\ last'.fm = "none"
        /\ \A r \in Range(recordings) :
             r.id # last.id /\ r.folderId = last.arg => r.tabTitle # last'.arg2
        /\ findActualPath(Disk, recordings[RecordingAt(last.id)], folders).fileExists )
      => LET i == RecordingAt(last.id)
         IN /\ last'.result = "ok"
            /\ fileExists(Disk', buildFolderPath(last.arg, folders'),
                          recordings[i].filename)
            /\ recordings'[i].folderId = last.arg
            /\ recordings'[i].tabTitle = last'.arg2 ]_vars

\* C11: whenever moveRecording(id, f) would return success, a
\* moveRecordingWithRename(id, f, t) with t used by no other recording of f
\* returns success too and leaves the disk, folderId and parentId that
\* moveRecording would leave, with tabTitle = t, in one index write.
C11_MoveWithRenameIsMovePlusTitle ==
  [][ ( /\ Called("moveRecordingWithRename") /\ loaded
        /\ RecordingAt(last'.id) # 0
        /\ \A r \in Range(recordings) :
             r.id # last'.id /\ r.folderId = last'.arg => r.tabTitle # last'.arg2
        /\ moveRecordingIn(Here, last'.id, last'.arg, last'.fm).result = "ok" )
      => LET M == moveRecordingIn(Here, last'.id, last'.arg, last'.fm)
             i == RecordingAt(last'.id)
         IN /\ last'.result = "ok"
            /\ dirs' = M.dirs /\ files' = M.files
            /\ recordings'[i].folderId = M.recordings[i].folderId
            /\ recordings'[i].parentId = M.recordings[i].parentId
            /\ recordings'[i].tabTitle = last'.arg2
            /\ last'.writes = 1 ]_vars

\* C12: after a successful deleteRecording(id, false) every recording that had
\* parentId = id is still in the index with its parentId cleared and its file
\* still readable, and no recording of the index has parentId = id.
C12_DeleteRecordingDetachesCrops ==
  [][ ( /\ Succeeded("deleteRecording") /\ last'.arg = "false"
        /\ RecordingAt(last'.id) # 0 )
      => /\ \A c \in Range(recordings) :
              c.parentId = last'.id /\ c.id # last'.id
              => \E d \in Range(recordings') :
                    /\ d.id = c.id /\ d.parentId = NULL
                    /\ getRecordingBlobIn(Here, c.id).success
                       => getRecordingBlobIn([Here EXCEPT !.folders = folders',
                                                          !.recordings = recordings',
                                                          !.dirs = dirs',
                                                          !.files = files'], c.id).success
         /\ \A d \in Range(recordings') : d.parentId # last'.id ]_vars

\* C13: deleteRecording(id, true) on an id of the index returns success, leaves
\* no entry with that id or with parentId = id, keeps every recording of another
\* id, writes the index once, and with no adapter failure the file of the entry
\* found for id and of every entry with parentId = id, where the fallback search
\* found one, is gone; on an id not in the index it returns FILE_NOT_FOUND and
\* changes nothing.
C13_DeleteRecordingWithCrops ==
  [][ (Called("deleteRecording") /\ last'.arg = "true" /\ loaded) =>
        IF RecordingAt(last'.id) = 0
        THEN /\ last'.result = "FILE_NOT_FOUND"
             /\ UNCHANGED <<folders, recordings, dirs, files, persisted>>
        ELSE LET removed == {recordings[RecordingAt(last'.id)]}
                            \cup {r \in Range(recordings) : r.parentId = last'.id}
             IN /\ last'.result = "ok"
                /\ last'.writes = 1
                /\ persisted' = [state |-> "valid", recordings |-> recordings',
                                 folders |-> folders']
                /\ folders' = folders
                /\ \A d \in Range(recordings') :
                      d \in Range(recordings) /\ d.id # last'.id /\ d.parentId # last'.id
                /\ \A r \in Range(recordings) :
                      (\A x \in removed : x.id # r.id) => r \in Range(recordings')
                /\ last'.fm = "none" =>
                      \A r \in removed :
                        LET found == findActualPath(Disk, r, folders)
                        IN found.fileExists =>
                             ~fileExists([dirs |-> dirs', files |-> files'],
                                         found.actualPath, r.filename) ]_vars

\* a deleteRecording(id, true) returned success and left other recordings and
\* files behind
C13_Witness ==
  /\ last.op = "deleteRecording" /\ last.arg = "true" /\ last.result = "ok"
  /\ last.fm = "none" /\ last.writes = 1
  /\ recordings # <<>> /\ DOMAIN files # {}
  /\ \A d \in Range(recordings) : d.id # last.id /\ d.parentId # last.id

C15_WriteThrough ==
  ( /\ last.result = "ok"
    /\ last.op \in {"initialize", "selectFolder", "createFolder", "renameFolder",
                    "moveFolder", "deleteFolder", "saveRecording", "deleteRecording",
                    "moveRecording", "moveRecordingWithRename", "updateRecording",
                    "renameRecording", "updateRecordings", "updateFolders"} )
  => /\ persisted.recordings = recordings
     /\ persisted.folders = folders

\* C16: initialize returns NO_FOLDER_SELECTED without a stored handle,
\* PERMISSION_DENIED or PERMISSION_PROMPT_NEEDED when the permission is not
\* granted, and the read error when the index cannot be read, none of which
\* sets initialized; otherwise it returns success and sets initialized, and
\* then the index was loaded from the document, or there was no document and
\* the fresh empty index has been persisted.
C16_ReadyOnlyOnFullSuccess ==
  [][ Called("initialize") =>
        IF ~dirHandle
        THEN last'.result = "NO_FOLDER_SELECTED" /\ initialized' = initialized
        ELSE IF permission = "denied"
        THEN last'.result = "PERMISSION_DENIED" /\ initialized' = initialized
        ELSE IF permission = "prompt"
        THEN last'.result = "PERMISSION_PROMPT_NEEDED" /\ initialized' = initialized
        ELSE IF persisted.state = "malformed" \/ last'.fm = "read"
        THEN last'.result = "READ_FAILED" /\ initialized' = initialized
        ELSE /\ last'.result = "ok" /\ initialized' /\ loaded'
             /\ IF persisted.state = "absent"
                THEN /\ recordings' = <<>> /\ folders' = <<>>
                     /\ persisted' = [state |-> "valid", recordings |-> <<>>,
                                      folders |-> <<>>]
                ELSE folders' = persisted.folders ]_vars

\* C17: while the index document is not valid JSON, an initialize that gets as
\* far as the load (handle stored, permission granted) and a selectFolder that
\* is not cancelled return READ_FAILED, write no index document and leave the
\* one on disk as it is, and the service is not Ready afterwards.
C17_MalformedIndexIsKept ==
  [][ ( /\ persisted.state = "malformed"
        /\ \/ Called("initialize") /\ dirHandle /\ permission = "granted"
           \/ Called("selectFolder") /\ last'.result # "NO_FOLDER_SELECTED" )
      => /\ last'.result = "READ_FAILED"
         /\ last'.writes = 0
         /\ persisted' = persisted
         /\ ~initialized' /\ ~loaded' ]_vars

\* a load of a document that is not valid JSON was refused although nothing
\* else failed
C17_Witness ==
  /\ last.op \in {"initialize", "selectFolder"}
  /\ last.result = "READ_FAILED" /\ last.fm = "none"
  /\ persisted.state = "malformed"
  /\ ~initialized

\* C18: while the service is not Ready (no index loaded: never initialized or
\* after clearFolder; or the call before was an initialize or requestPermission
\* that returned an error) every folder and recording operation returns
\* INVALID_OPERATION and changes neither the index nor the disk.
C18_NoOperationOutsideReady ==
  [][ ( /\ nops' = nops + 1
        /\ last'.op \in {"createFolder", "saveRecording", "updateRecordings",
                         "updateFolders"}
        /\ \/ ~loaded
           \/ last.op \in {"initialize", "requestPermission"} /\ last.result # "ok" )
      => /\ last'.result = "INVALID_OPERATION"
         /\ UNCHANGED <<folders, recordings, dirs, files, persisted>> ]_vars

\* C19: a load of a valid index document by initialize or selectFolder, with
\* no adapter failure, leaves in memory the document's recordings with only
\* the first entry of every id, in order, and when an entry was dropped the
\* document on disk holds the cleaned list when the load returns.
C19_DedupeOnEveryLoad ==
  [][ ( /\ Succeeded("initialize") \/ Succeeded("selectFolder")
        /\ persisted.state = "valid" /\ last'.fm = "none" )
      => /\ recordings' = FirstOccurrences(persisted.recordings)
         /\ recordings' # persisted.recordings => persisted'.recordings = recordings' ]_vars

\* C20: a successful updateRecordings(list) leaves as the index's recordings the
\* list with only the first entry of every id, in the order of the list, after
\* exactly one index write that stores those recordings; de-duplicating the
\* result again changes nothing, and a list without repeated ids is stored as
\* passed.
C20_BulkReplaceDedupes ==
  [][ (Succeeded("updateRecordings") /\ loaded) =>
        /\ recordings' = FirstOccurrences(last'.arg)
        /\ last'.writes = 1
        /\ persisted'.recordings = recordings'
        /\ folders' = folders
        /\ dedupeById(recordings', {}, <<>>) = recordings'
        /\ (\A i, j \in DOMAIN last'.arg : last'.arg[i].id = last'.arg[j].id => i = j)
             => recordings' = last'.arg ]_vars

\* a bulk replace dropped a later entry of an id and kept the first one
C20_Witness ==
  /\ last.op = "updateRecordings" /\ last.result = "ok"
  /\ recordings # <<>>
  /\ Len(last.arg) > Len(recordings)
  /\ recordings[1] = last.arg[1]
  /\ \E i \in DOMAIN last.arg : last.arg[i].id = recordings[1].id /\ last.arg[i] # recordings[1]

\* C21: at every step of createFolder, with page closes and adapter failures at
\* any await, every folder entry of the index document has its directory on
\* disk, and so has the entry of every createFolder call at the path the call
\* computed; and a createFolder whose directory creation failed returns the
\* error with the in-memory index and the document unchanged.
C21_DirectoryBeforeIndex ==
  /\ [](/\ \A f \in Range(persisted.folders) :
             buildFolderPath(f.id, persisted.folders) \in dirs
        /\ \A k \in DOMAIN inflight :
             (/\ inflight[k].op = "createFolder"
              /\ \E f \in Range(persisted.folders) : f.id = inflight[k].entry.id)
             => inflight[k].path \in dirs)
  /\ [][ \A k \in DOMAIN inflight :
           (/\ inflight[k].op = "createFolder"
            /\ inflight[k].pc = "getOrCreateDirectory"
            /\ k \in DOMAIN inflight'
            /\ inflight'[k].pc # "getOrCreateDirectory"
            /\ inflight[k].path \notin dirs')
           => /\ inflight'[k].pc = "returned" /\ inflight'[k].result = "READ_FAILED"
              /\ folders' = folders /\ persisted' = persisted ]_vars

\* the page was closed between the creation of a directory and the index
\* write: the directory is on disk and no entry of the document points at it
C21_Witness ==
  /\ last.op = "pageClosed"
  /\ \E p \in dirs : p # <<>> /\ \A f \in Range(persisted.folders) :
                                   buildFolderPath(f.id, persisted.folders) # p
  /\ persisted.folders # <<>>

\* C22 as stated: when renameFolder fails after it created the new directory,
\* the old and the new directory are both on disk and the folder's entry in
\* the index carries the new name.
C22_FailedRenamePointsAtNewName ==
  [][ ( /\ Called("renameFolder") /\ loaded /\ FolderAt(last'.id) # 0
        /\ last'.result # "ok"
        /\ Front(buildFolderPath(last'.id, folders)) \o <<last'.arg>> \notin dirs
        /\ Front(buildFolderPath(last'.id, folders)) \o <<last'.arg>> \in dirs' )
      => /\ buildFolderPath(last'.id, folders) \in dirs'
         /\ folders'[FolderAt(last'.id)].name = last'.arg ]_vars

\* C22 amended: when renameFolder fails after it created the new directory,
\* the old and the new directory are both on disk, every file of the old
\* directory is still in it, and the index and the index document are
\* unchanged, so the folder's entry still carries the old name.
C22_FailedRenameKeepsOldName ==
  [][ ( /\ Called("renameFolder") /\ loaded /\ FolderAt(last'.id) # 0
        /\ last'.result # "ok"
        /\ Front(buildFolderPath(last'.id, folders)) \o <<last'.arg>> \notin dirs
        /\ Front(buildFolderPath(last'.id, folders)) \o <<last'.arg>> \in dirs' )
      => /\ buildFolderPath(last'.id, folders) \in dirs'
         /\ \A k \in DOMAIN files :
               k[1] = buildFolderPath(last'.id, folders)
               => k \in DOMAIN files' /\ files'[k] = files[k]
         /\ folders' = folders /\ recordings' = recordings
         /\ persisted' = persisted
         /\ buildFolderPath(last'.id, folders') = buildFolderPath(last'.id, folders) ]_vars

\* a renameFolder failed while copying a file: the directory of the new name
\* was made, the old one still holds the file, the entry has the old name
C22_Witness ==
  /\ last.op = "renameFolder" /\ last.result = "WRITE_FAILED" /\ last.fm = "write"
  /\ FolderAt(last.id) # 0
  /\ folders[FolderAt(last.id)].name # last.arg
  /\ buildFolderPath(last.id, folders) \in dirs
  /\ Front(buildFolderPath(last.id, folders)) \o <<last.arg>> \in dirs
  /\ \A f \in Range(folders) :
        buildFolderPath(f.id, folders) # Front(buildFolderPath(last.id, folders)) \o <<last.arg>>
  /\ \E k \in DOMAIN files : k[1] = buildFolderPath(last.id, folders)

\* C23: after a migrate, without item failures, of legacy folders with unique
\* sibling names into a store without folders, every legacy folder has a new
\* folder with the same full name path, whose parentId is null for a root
\* folder and else the id of the new folder with the legacy parent's name
\* path; the old-id to new-id map has an entry for every legacy folder; and
\* every migrated recording is 'uncategorized' when it was, and else in the
\* new folder with the name path of its legacy folder.
C23_MigrationRebuildsTree ==
  [][ ( /\ Called("migrate") /\ last'.result = "ok" /\ last'.arg = {}
        /\ folders = <<>> /\ recordings = <<>>
        /\ SiblingNamesUnique(legacy.folders) )
      => /\ \A lf \in Range(legacy.folders) :
              \E nf \in Range(folders') :
                /\ buildFolderPath(nf.id, folders') = buildFolderPath(lf.id, legacy.folders)
                /\ IF lf.parentId = NULL THEN nf.parentId = NULL
                   ELSE \E np \in Range(folders') :
                          /\ np.id = nf.parentId
                          /\ buildFolderPath(np.id, folders') =
                               buildFolderPath(lf.parentId, legacy.folders)
         /\ DOMAIN buildFolderIdMap(legacy.folders, folders') =
              {lf.id : lf \in Range(legacy.folders)}
         /\ \A r \in Range(Migratable(legacy, {})) :
              \E m \in Range(recordings') :
                /\ m.id = r.id
                /\ IF r.folderId = UNCATEGORIZED THEN m.folderId = UNCATEGORIZED
                   ELSE /\ m.folderId # UNCATEGORIZED
                        /\ buildFolderPath(m.folderId, folders') =
                             buildFolderPath(r.folderId, legacy.folders) ]_vars

\* C24: whenever migrate returns success the legacy recordings, folders and
\* audio are empty and migrationCompleted is set, so that needsMigration is
\* false and no later startup migrates; and no recording id is in the new
\* index twice.
C24_MigrationRunsOnce ==
  [][ (Called("migrate") /\ last'.result = "ok")
      => /\ legacy'.recordings = <<>> /\ legacy'.folders = <<>> /\ legacy'.blobs = {}
         /\ legacy'.migrationCompleted
         /\ ~needsMigration(legacy')
         /\ \A i, j \in DOMAIN recordings' :
              recordings'[i].id = recordings'[j].id => i = j ]_vars

\* C25: migrate returns an error exactly when a read of the legacy stores
\* throws; otherwise it returns success whatever item failed, every legacy
\* folder whose createFolder was not made to fail got an entry, the entries
\* appended to the recordings are the legacy recordings with audio and a
\* successful save, in storage order, and each of those ids is in the new
\* index exactly once.
C25_ItemFailuresAreSkipped ==
  [][ Called("migrate")
      => /\ (last'.result # "ok") <=> (last'.id \in {"get", "blob"})
         /\ last'.result = "ok" =>
              /\ \A lf \in Range(legacy.folders) :
                    lf.id \notin last'.arg =>
                      \E k \in (Len(folders) + 1)..Len(folders') : folders'[k].name = lf.name
              /\ Len(recordings') = Len(recordings) + Len(Migratable(legacy, last'.arg))
              /\ \A k \in 1..Len(Migratable(legacy, last'.arg)) :
                    recordings'[Len(recordings) + k].id = Migratable(legacy, last'.arg)[k].id
              /\ \A r \in Range(Migratable(legacy, last'.arg)) :
                    Cardinality({k \in DOMAIN recordings' : recordings'[k].id = r.id}) = 1 ]_vars

\* ----- the Path Resolver on folder lists of every shape -------------------------
\* a folder id that no list holds
MissingFolderId == FolderIdSeq[MaxFolders + 1]

\* lists of n folders with any parent: none, a folder of the list, or a folder
\* that is missing
FolderListsOf(n) ==
  {[i \in 1..n |-> [id |-> FolderIdSeq[i], name |-> names[i], parentId |-> parents[i]]] :
     names \in [1..n -> FolderNames],
     parents \in [1..n -> {NULL, MissingFolderId} \cup {FolderIdSeq[j] : j \in 1..n}]}

\* those without a parent cycle, on which the walk ends (C7)
FolderLists ==
  {fls \in UNION {FolderListsOf(n) : n \in 0..MaxFolders} :
     \A f \in Range(fls) : f.id \notin Ancestors(f.id, fls)}

InitPaths ==
  /\ loaded = TRUE
  /\ initialized = TRUE
  /\ folders \in FolderLists
  /\ recordings = <<>>
  /\ dirs = {<<>>}
  /\ files = [k \in {} |-> ""]
  /\ persisted = NoDocument
  /\ dirHandle = TRUE
  /\ rootHandle = TRUE
  /\ permission = "granted"
  /\ uuids = 0
  /\ nops = 0
  /\ inflight = NoCalls
  /\ legacy = NoLegacy
  /\ last = [op |-> "new", id |-> NULL, arg |-> NULL, arg2 |-> NULL,
             result |-> "ok", fm |-> "none", writes |-> 0]

\* buildFolderPath(folderId, this.library.folders): last.arg is the path returned
resolvePath(folderId) ==
  /\ last' = Outcome("buildFolderPath", folderId, buildFolderPath(folderId, folders),
                     "ok", "none", 0)
  /\ nops' = nops + 1
  /\ UNCHANGED <<loaded, initialized, folders, recordings, dirs, files, persisted,
                 dirHandle, rootHandle, permission, uuids, inflight, legacy>>

PathsNext ==
  \E folderId \in {NULL, UNCATEGORIZED, MissingFolderId} \cup {f.id : f \in Range(folders)} :
     nops < MaxPathOps /\ resolvePath(folderId)

SpecPaths == InitPaths /\ [][PathsNext]_vars

\* C26: buildFolderPath(folderId, folders) is empty for null, 'uncategorized'
\* and an id that is not in folders; for a folder of the list it ends in the
\* folder's name, preceded by the path of its parent (nothing when the parent
\* is null or missing, where the walk stops); and when every ancestor is in the
\* list its length is the folder's depth, the number of its ancestors plus one.
C26_FolderPathIsAncestorNames ==
  [][ Called("buildFolderPath") =>
        IF FolderAt(last'.id) = 0 THEN last'.arg = <<>>
        ELSE LET f == folders[FolderAt(last'.id)]
             IN /\ last'.arg # <<>>
                /\ Last(last'.arg) = f.name
                /\ Front(last'.arg) =
                     (IF f.parentId = NULL \/ FolderAt(f.parentId) = 0 THEN <<>>
                      ELSE buildFolderPath(f.parentId, folders))
                /\ \A k \in 1..Len(last'.arg) :
                     \E a \in {f.id} \cup Ancestors(f.id, folders) :
                       /\ FolderAt(a) # 0
                       /\ folders[FolderAt(a)].name = last'.arg[k]
                       /\ Cardinality({b \in Ancestors(a, folders) : FolderAt(b) # 0})
                            >= k - 1
                /\ (\A a \in Ancestors(f.id, folders) : FolderAt(a) # 0)
                     => Len(last'.arg) = Cardinality(Ancestors(f.id, folders)) + 1 ]_vars

\* the path of a folder three levels deep with differently named ancestors
\* was resolved
C26_Witness ==
  /\ last.op = "buildFolderPath"
  /\ Len(last.arg) = 3
  /\ last.arg[1] # last.arg[2]
  /\ \A a \in Ancestors(last.id, folders) : FolderAt(a) # 0

\* C27: a successful moveRecording(id, f) sets folderId = f and parentId = null
\* on the entry found for id, changes no other field of it, no other recording
\* and no folder; when the fallback search finds the recording's file nowhere
\* the disk is left as it was.
C27_MoveRecordingChangesFolderOnly ==
  [][ Succeeded("moveRecording") =>
        LET i == RecordingAt(last'.id)
        IN /\ i # 0
           /\ Len(recordings') = Len(recordings)
           /\ recordings'[i] = [recordings[i] EXCEPT !.folderId = last'.arg,
                                                     !.parentId = NULL]
           /\ \A k \in 1..Len(recordings) : k # i => recordings'[k] = recordings[k]
           /\ folders' = folders
           /\ ~findActualPath(Disk, recordings[i], folders).fileExists
                => dirs' = dirs /\ files' = files ]_vars

\* a moveRecording returned success for a recording whose file is found
\* nowhere, beside another recording
C27_Witness ==
  /\ last.op = "moveRecording" /\ last.result = "ok"
  /\ Len(recordings) >= 2
  /\ RecordingAt(last.id) # 0
  /\ recordings[RecordingAt(last.id)].folderId = last.arg
  /\ ~findActualPath(Disk, recordings[RecordingAt(last.id)], folders).fileExists

\* C28: no two different folders of the index have the same folderPath.
C28_DistinctFolderDirectories ==
  \A i, j \in 1..Len(folders) :
     i # j => buildFolderPath(folders[i].id, folders) # buildFolderPath(folders[j].id, folders)

\* C29 as stated: once two saveRecording calls of one page, issued with no
\* other call beside them, have both returned success, the in-memory index and
\* the index document both contain both recordings.
C29_OverlappingSavesBothPersisted ==
  \A k1, k2 \in DOMAIN inflight :
     ( /\ k1 # k2
       /\ \A k \in DOMAIN inflight : inflight[k].op = "saveRecording"
       /\ inflight[k1].pc = "returned" /\ inflight[k1].result = "ok"
       /\ inflight[k2].pc = "returned" /\ inflight[k2].result = "ok" )
     => \A k \in {k1, k2} :
           /\ \E r \in Range(recordings) : r.id = inflight[k].entry.id
           /\ persisted.state = "valid"
           /\ \E r \in Range(persisted.recordings) : r.id = inflight[k].entry.id

\* C29: no step of a saveRecording call removes a recording from the in-memory
\* index, and when a saveRecording call returns success its recording is in the
\* in-memory index and in the index document its index write has just
\* committed: after two overlapping calls the in-memory index holds both
\* recordings and the document holds that of the call whose write came last.
C29_OverlappingSavesLastWriteWins ==
  [][ \A k \in DOMAIN inflight :
        ( /\ inflight[k].op = "saveRecording"
          /\ k \in DOMAIN inflight'
          /\ inflight'[k] # inflight[k] )
        => /\ \A r \in Range(recordings) : r \in Range(recordings')
           /\ (inflight'[k].pc = "returned" /\ inflight'[k].result = "ok")
                => /\ inflight[k].entry \in Range(recordings')
                   /\ persisted'.state = "valid"
                   /\ inflight[k].entry \in Range(persisted'.recordings) ]_vars

\* two overlapping saveRecording calls have both returned success: the
\* in-memory index holds both recordings, the document only one of them
C29_Witness ==
  \E k1, k2 \in DOMAIN inflight :
     /\ k1 # k2
     /\ \A k \in {k1, k2} :
          /\ inflight[k].op = "saveRecording"
          /\ inflight[k].pc = "returned" /\ inflight[k].result = "ok"
          /\ inflight[k].entry \in Range(recordings)
     /\ inflight[k1].entry \in Range(persisted.recordings)
     /\ inflight[k2].entry \notin Range(persisted.recordings)

\* C30: saveRecording, moveRecording, renameRecording and deleteFolder(id, false)
\* leave the file of every other recording of the index, where it was at the
\* recording's disk path, at that recording's disk path with the same bytes.
C30_NoSilentOverwrite ==
  [][ ( /\ loaded
        /\ \/ Called("saveRecording") \/ Called("moveRecording")
           \/ Called("renameRecording")
           \/ Called("deleteFolder") /\ last'.arg = "false" )
      => \A k \in 1..Len(recordings) :
           ( /\ IF last'.op = "deleteFolder" THEN recordings[k].folderId # last'.id
                                             ELSE recordings[k].id # last'.id
             /\ fileExists(Disk, getRecordingDiskPath(recordings[k], folders),
                           recordings[k].filename)
             /\ k <= Len(recordings') /\ recordings'[k].id = recordings[k].id )
           => /\ fileExists([dirs |-> dirs', files |-> files'],
                            getRecordingDiskPath(recordings'[k], folders'),
                            recordings'[k].filename)
              /\ files'[<<getRecordingDiskPath(recordings'[k], folders'),
                          recordings'[k].filename>>]
                   = files[<<getRecordingDiskPath(recordings[k], folders),
                             recordings[k].filename>>] ]_vars

====
